---- MODULE Spec2Model ----
(***************************************************************************)
(* Model of vispy.oogl buffers and textures (src/vispy/oogl/buffer.py and  *)
(* src/vispy/oogl/texture.py): the client-side objects, their pending      *)
(* queues and the GL calls they issue.                                     *)
(*                                                                         *)
(* Every method is an operator from a "world" to a world.  A world is the  *)
(* record [buf, view, tex, gl, calls, err, fresh]: the objects, the GL     *)
(* device, the GL calls issued so far by the running call, the exception   *)
(* raised (if any) and the name glGen* returns if it is called.  A raise   *)
(* keeps every assignment made before it, as in Python.                    *)
(***************************************************************************)
EXTENDS Integers, Sequences, FiniteSets, TLC

VARIABLES buf, view, tex, gl, gl_calls, last

vars == <<buf, view, tex, gl, gl_calls, last>>

(***************************************************************************)
(* Bounds of the model.                                                    *)
(***************************************************************************)
\* largest element count of an array handed to the buffer
MaxCount == 2
\* largest length of the pending-write queue before set_subdata is withheld
MaxPending == 2
\* GL object names are drawn from 1..MaxName
MaxName == 1

(***************************************************************************)
(* numpy: dtypes and arrays.                                               *)
(* A dtype is [name, n, fields]: a scalar type (n = 0, no fields), a       *)
(* sub-array type of n scalars (n > 0), or a structured type ("void", with *)
(* fields [name, base, n], packed in order).  An array is [t, dtype,       *)
(* shape]; its dtype is never a sub-array type (numpy moves the sub-array  *)
(* dimensions into the shape).                                             *)
(***************************************************************************)
Plain(name) == [name |-> name, n |-> 0, fields |-> <<>>]

SubArray(name, n) == [name |-> name, n |-> n, fields |-> <<>>]

Field(fname, base, n) == [name |-> fname, base |-> base, n |-> n]

Struct(fields) == [name |-> "void", n |-> 0, fields |-> fields]

NoDType == Plain("none")

Arr(dtype, shape) == [t |-> "ndarray", dtype |-> dtype, shape |-> shape]

Desc(dtype) == [t |-> "dtype", dtype |-> dtype, shape |-> <<>>]

\* a value that is neither an array nor a dtype (a list, say)
NotArray == [t |-> "other", dtype |-> NoDType, shape |-> <<>>]

\* Python's None where an array is optional
NoneArg == [t |-> "None", dtype |-> NoDType, shape |-> <<>>]

scalar_itemsize(name) ==
    CASE name \in {"bool", "uint8", "int8"} -> 1
      [] name \in {"uint16", "int16", "float16"} -> 2
      [] name \in {"uint32", "int32", "float32"} -> 4
      [] name \in {"float64", "int64", "uint64"} -> 8
      [] OTHER -> 0

RECURSIVE prod(_)
prod(shape) == IF shape = <<>> THEN 1 ELSE Head(shape) * prod(Tail(shape))

\* number of scalars of a field: int(np.prod(dtype[name].shape))
field_count(f) == IF f.n = 0 THEN 1 ELSE f.n

field_itemsize(f) == scalar_itemsize(f.base) * field_count(f)

RECURSIVE fields_itemsize(_)
fields_itemsize(fs) ==
    IF fs = <<>> THEN 0 ELSE field_itemsize(Head(fs)) + fields_itemsize(Tail(fs))

RECURSIVE fields_count(_)
fields_count(fs) ==
    IF fs = <<>> THEN 0 ELSE field_count(Head(fs)) + fields_count(Tail(fs))

\* dtype.itemsize
dtype_itemsize(d) ==
    IF d.fields # <<>> THEN fields_itemsize(d.fields)
    ELSE scalar_itemsize(d.name) * (IF d.n = 0 THEN 1 ELSE d.n)

\* dtype.base: the scalar type of a sub-array type, the type itself otherwise
dtype_base(d) == [d EXCEPT !.n = 0]

\* index of the field named key, 0 when there is none
field_index(d, key) ==
    IF \E i \in 1..Len(d.fields) : d.fields[i].name = key
    THEN CHOOSE i \in 1..Len(d.fields) : d.fields[i].name = key
    ELSE 0

\* dtype[name] for the i-th field
dtype_getfield(d, i) == SubArray(d.fields[i].base, d.fields[i].n)

\* dtype.fields[name][1]: the byte offset of the i-th field
dtype_field_offset(d, i) == fields_itemsize(SubSeq(d.fields, 1, i - 1))

\* data[name] for the only field of a one-field structured array
array_getfield(data) ==
    LET f == data.dtype.fields[1]
    IN  Arr(Plain(f.base), IF f.n = 0 THEN data.shape ELSE Append(data.shape, f.n))

array_size(data) == prod(data.shape)

array_nbytes(data) == array_size(data) * dtype_itemsize(data.dtype)

\* data.astype(dtype): same shape, elements converted
array_astype(data, dtype) == Arr(dtype, data.shape)

(***************************************************************************)
(* The GL device: the names of the live GL objects.                        *)
(***************************************************************************)
NoCall == [f |-> "", target |-> "", handle |-> 0, offset |-> 0, size |-> 0, data |-> NotArray]

GLCall(w, c) == [w EXCEPT !.calls = Append(@, c)]

glGenBuffers(w) ==
    GLCall([w EXCEPT !.gl.names = @ \cup {w.fresh}],
           [NoCall EXCEPT !.f = "glGenBuffers", !.handle = w.fresh])

glDeleteBuffers(w, handle) ==
    GLCall([w EXCEPT !.gl.names = @ \ {handle}],
           [NoCall EXCEPT !.f = "glDeleteBuffers", !.handle = handle])

glBindBuffer(w, target, handle) ==
    GLCall(w, [NoCall EXCEPT !.f = "glBindBuffer", !.target = target, !.handle = handle])

glBufferData(w, target, nbytes) ==
    GLCall(w, [NoCall EXCEPT !.f = "glBufferData", !.target = target, !.size = nbytes])

glBufferSubData(w, target, offset, nbytes, data) ==
    GLCall(w, [NoCall EXCEPT !.f = "glBufferSubData", !.target = target,
                             !.offset = offset, !.size = nbytes, !.data = data])

(***************************************************************************)
(* Exceptions.                                                             *)
(***************************************************************************)
Raise(w, e) == [w EXCEPT !.err = e]

Failed(w) == w.err # ""

(***************************************************************************)
(* class Buffer.  s names the object the method runs on: "buf" or "view".  *)
(***************************************************************************)
PendingItem(data, nbytes, offset) == [data |-> data, nbytes |-> nbytes, offset |-> offset]

\* the object Buffer.__init__ leaves when no data is given
NewBuffer(cls, target) ==
    [cls |-> cls, target |-> target,
     handle |-> 0, valid |-> FALSE, need_update |-> FALSE,
     nbytes |-> 0, need_resize |-> FALSE, pending |-> <<>>,
     dtype |-> NoDType, vsize |-> 0, stride |-> 0, count |-> 0, offset |-> 0]

NoBuffer == NewBuffer("none", "")

\* set_nbytes that leaves the queue alone
Buffer_set_nbytes_keeps_pending(w, s, nbytes) ==
    IF w[s].nbytes # nbytes
    THEN [w EXCEPT ![s].nbytes = nbytes, ![s].need_resize = TRUE]
    ELSE w

Buffer_set_nbytes(w, s, nbytes) ==
    LET w1 == IF w[s].nbytes # nbytes
              THEN [w EXCEPT ![s].nbytes = nbytes, ![s].need_resize = TRUE]
              ELSE w
    IN  [w1 EXCEPT ![s].pending = <<>>]

\* set_data that uploads at once instead of queueing
Buffer_set_data_uploads_now(w, s, data) ==
    IF data.t # "ndarray" THEN Raise(w, "ValueError: not an array")
    ELSE glBufferSubData(Buffer_set_nbytes(w, s, array_nbytes(data)), w[s].target, 0,
                         array_nbytes(data), data)

\* set_data that asks for a reallocation whatever the size of the data
Buffer_set_data_always_resizes(w, s, data) ==
    IF data.t # "ndarray" THEN Raise(w, "ValueError: not an array")
    ELSE LET w1 == Buffer_set_nbytes(w, s, array_nbytes(data))
         IN  [w1 EXCEPT ![s].pending = Append(@, PendingItem(data, array_nbytes(data), 0)),
                        ![s].need_update = TRUE,
                        ![s].need_resize = TRUE]

Buffer_set_data(w, s, data) ==
    IF data.t # "ndarray" THEN Raise(w, "ValueError: not an array")
    ELSE LET w1 == Buffer_set_nbytes(w, s, array_nbytes(data))
         IN  [w1 EXCEPT ![s].pending = Append(@, PendingItem(data, array_nbytes(data), 0)),
                        ![s].need_update = TRUE]

\* set_subdata without the two checks
Buffer_set_subdata_unchecked(w, s, offset, data) ==
    IF data.t # "ndarray" THEN Raise(w, "ValueError: not an array")
    ELSE [w EXCEPT ![s].pending = Append(@, PendingItem(data, array_nbytes(data), offset)),
                   ![s].need_update = TRUE]

Buffer_set_subdata(w, s, offset, data) ==
    IF w[s].nbytes = 0 THEN Raise(w, "ValueError: no space allocated")
    ELSE IF data.t # "ndarray" THEN Raise(w, "ValueError: not an array")
    ELSE IF offset + array_nbytes(data) > w[s].nbytes
         THEN Raise(w, "ValueError: too big for buffer")
    ELSE [w EXCEPT ![s].pending = Append(@, PendingItem(data, array_nbytes(data), offset)),
                   ![s].need_update = TRUE]

Buffer_create(w, s) ==
    IF w[s].handle = 0
    THEN [glGenBuffers(w) EXCEPT ![s].handle = w.fresh]
    ELSE w

Buffer_delete(w, s) == glDeleteBuffers(w, w[s].handle)

Buffer_activate(w, s) == glBindBuffer(w, w[s].target, w[s].handle)

Buffer_deactivate(w, s) == glBindBuffer(w, w[s].target, 0)

\* the loop of Buffer._update: pop(0) and upload until the queue is empty
RECURSIVE Buffer_upload_pending(_, _)
Buffer_upload_pending(w, s) ==
    IF w[s].pending = <<>> THEN w
    ELSE LET item == Head(w[s].pending)
             w1 == [w EXCEPT ![s].pending = Tail(@)]
         IN  Buffer_upload_pending(
                 glBufferSubData(w1, w1[s].target, item.offset, item.nbytes, item.data), s)

\* _update that uploads the queue before it reallocates
Buffer_update_uploads_first(w, s) ==
    IF w[s].need_resize
    THEN [glBufferData(Buffer_upload_pending(glBindBuffer(w, w[s].target, w[s].handle), s),
                       w[s].target, w[s].nbytes) EXCEPT ![s].need_resize = FALSE]
    ELSE Buffer_upload_pending(glBindBuffer(w, w[s].target, w[s].handle), s)

Buffer_update(w, s) ==
    LET w1 == glBindBuffer(w, w[s].target, w[s].handle)
        w2 == IF w1[s].need_resize
              THEN [glBufferData(w1, w1[s].target, w1[s].nbytes) EXCEPT ![s].need_resize = FALSE]
              ELSE w1
    IN  Buffer_upload_pending(w2, s)

(***************************************************************************)
(* Type inference of ElementBuffer and VertexBuffer.  The result is        *)
(* [err, dtype, vsize, stride, count].                                     *)
(***************************************************************************)
Parsed(dtype, vsize, stride, count) ==
    [err |-> "", dtype |-> dtype, vsize |-> vsize, stride |-> stride, count |-> count]

ParseError(e) == [err |-> e, dtype |-> NoDType, vsize |-> 0, stride |-> 0, count |-> 0]

ElementBuffer_DTYPE2GTYPE == {"uint8", "uint16", "uint32"}

VertexBuffer_DTYPE2GTYPE == {"int8", "uint8", "uint16", "int16", "float32", "float16"}

ElementBuffer_parse_dtype(dtype) ==
    IF dtype.fields # <<>>
    THEN ParseError("ValueError: structured dtype")
    ELSE Parsed(dtype_base(dtype), 1, dtype_itemsize(dtype), 0)

ElementBuffer_parse_array(data) ==
    IF data.dtype.fields # <<>>
    THEN ParseError("ValueError: structured array")
    ELSE [ElementBuffer_parse_dtype(data.dtype) EXCEPT !.count = array_size(data)]

\* while dtype.fields and len(dtype.fields) == 1: dtype = dtype[dtype.names[0]]
unwrap_dtype(dtype) ==
    IF Len(dtype.fields) = 1 THEN dtype_getfield(dtype, 1) ELSE dtype

\* while data.dtype.fields and len(data.dtype.fields) == 1: data = data[names[0]]
unwrap_array(data) ==
    IF Len(data.dtype.fields) = 1 THEN array_getfield(data) ELSE data

VertexBuffer_parse_dtype(dtype0) ==
    LET dtype == unwrap_dtype(dtype0)
        vsize == IF dtype.fields # <<>> THEN fields_count(dtype.fields)
                 ELSE IF dtype.n # 0 THEN dtype.n
                 ELSE 1
    IN  Parsed(dtype_base(dtype), vsize, dtype_itemsize(dtype), 0)

\* "data.base is not data": ndarray.base is None for an array that owns its
\* memory and the array it was derived from otherwise; it is never the array
\* itself, so the test holds for every array.
data_base_is_not_data(data) == TRUE

\* vsize and count from the shape of the array, p being what its dtype gives
VertexBuffer_parse_shape(p, data) ==
    IF p.dtype.fields # <<>> THEN [p EXCEPT !.count = array_size(data)]
    ELSE IF Len(data.shape) <= 1 THEN [p EXCEPT !.vsize = 1, !.count = array_size(data)]
    ELSE [p EXCEPT !.vsize = data.shape[Len(data.shape)],
                   !.count = prod(SubSeq(data.shape, 1, Len(data.shape) - 1))]

\* if data.base is not data: stride = dtype.itemsize * vsize
VertexBuffer_parse_stride(q, data) ==
    IF data_base_is_not_data(data)
    THEN [q EXCEPT !.stride = dtype_itemsize(q.dtype) * q.vsize]
    ELSE q

VertexBuffer_parse_array(data) ==
    VertexBuffer_parse_stride(
        VertexBuffer_parse_shape(VertexBuffer_parse_dtype(unwrap_array(data).dtype),
                                 unwrap_array(data)),
        unwrap_array(data))

ElementClasses == {"ElementBuffer", "ClientElementBuffer"}

VertexClasses == {"VertexBuffer", "VertexBufferView", "ClientVertexBuffer"}

\* self._parse_array / self._parse_dtype / self.DTYPE2GTYPE of class cls
parse_array(cls, data) ==
    IF cls \in ElementClasses THEN ElementBuffer_parse_array(data)
    ELSE VertexBuffer_parse_array(data)

parse_dtype(cls, dtype) ==
    IF cls \in ElementClasses THEN ElementBuffer_parse_dtype(dtype)
    ELSE VertexBuffer_parse_dtype(dtype)

DTYPE2GTYPE(cls) ==
    IF cls \in ElementClasses THEN ElementBuffer_DTYPE2GTYPE
    ELSE VertexBuffer_DTYPE2GTYPE

(***************************************************************************)
(* class VertexBufferView: the properties that read through to the base.   *)
(* Each stores what it read in the view's own field and returns it.        *)
(***************************************************************************)
VertexBufferView_handle_cached(w) == w

VertexBufferView_handle(w) == [w EXCEPT !.view.handle = w.buf.handle]

VertexBufferView_stride(w) == [w EXCEPT !.view.stride = w.buf.stride]

VertexBufferView_count(w) == [w EXCEPT !.view.count = w.buf.count]

\* self.stride and self.count as evaluated on object s
read_stride(w, s) == IF w[s].cls = "VertexBufferView" THEN VertexBufferView_stride(w) ELSE w

read_count(w, s) == IF w[s].cls = "VertexBufferView" THEN VertexBufferView_count(w) ELSE w

\* set_count of a view that returns without raising
VertexBufferView_set_count_ignored(w) == w

\* VertexBufferView.set_count takes no argument and raises
VertexBufferView_set_count(w) == Raise(w, "Error: cannot set count on a view")

(***************************************************************************)
(* class DataBuffer.                                                       *)
(***************************************************************************)
DataBuffer_set_count(w, s, count) ==
    Buffer_set_nbytes([w EXCEPT ![s].count = count], s, count * w[s].stride)

\* self.set_count(count)
set_count(w, s, count) ==
    IF w[s].cls = "VertexBufferView" THEN VertexBufferView_set_count(w)
    ELSE DataBuffer_set_count(w, s, count)

\* the three comparisons of set_data and set_subdata against the buffer
match_error(w, s, p) ==
    IF p.dtype # w[s].dtype THEN "ValueError: dtype mismatch"
    ELSE IF p.vsize # w[s].vsize THEN "ValueError: vsize mismatch"
    ELSE IF p.stride # read_stride(w, s)[s].stride THEN "ValueError: stride mismatch"
    ELSE ""

\* the state after the comparisons: self.stride is read once dtype and vsize agree
match_world(w, s, p) ==
    IF p.dtype = w[s].dtype /\ p.vsize = w[s].vsize THEN read_stride(w, s) ELSE w

\* set_data with the comparisons against the buffer left out
DataBuffer_set_parsed_data_adopts(w, s, data, p) ==
    IF p.err # "" THEN Raise(w, p.err)
    ELSE Buffer_set_data(
             set_count([w EXCEPT ![s].dtype = p.dtype, ![s].vsize = p.vsize,
                                 ![s].stride = p.stride], s, p.count), s, data)

\* set_data once p, what the array parses to, is known
DataBuffer_set_parsed_data(w, s, data, p) ==
    IF p.err # "" THEN Raise(w, p.err)
    ELSE IF match_error(w, s, p) # "" THEN Raise(match_world(w, s, p), match_error(w, s, p))
    ELSE IF Failed(set_count(match_world(w, s, p), s, p.count))
    THEN set_count(match_world(w, s, p), s, p.count)
    ELSE Buffer_set_data(set_count(match_world(w, s, p), s, p.count), s, data)

DataBuffer_set_data(w, s, data) ==
    IF data.t # "ndarray" THEN Raise(w, "ValueError: not an array")
    ELSE DataBuffer_set_parsed_data(w, s, unwrap_array(data),
                                    parse_array(w[s].cls, unwrap_array(data)))

\* the part of set_subdata that follows the comparisons; w has self.count read
DataBuffer_set_subdata_at(w, s, offset, data, p) ==
    IF offset + p.count > w[s].count THEN Raise(w, "ValueError: does not fit")
    ELSE Buffer_set_subdata(w, s, offset * w[s].stride, data)

\* set_subdata once p, what the array parses to, is known
DataBuffer_set_parsed_subdata(w, s, offset, data, p) ==
    IF p.err # "" THEN Raise(w, p.err)
    ELSE IF match_error(w, s, p) # "" THEN Raise(match_world(w, s, p), match_error(w, s, p))
    ELSE IF offset < 0 THEN Raise(match_world(w, s, p), "ValueError: offset < 0")
    ELSE DataBuffer_set_subdata_at(read_count(match_world(w, s, p), s), s, offset, data, p)

DataBuffer_set_subdata(w, s, offset, data) ==
    IF data.t # "ndarray" THEN Raise(w, "AttributeError: dtype")
    ELSE DataBuffer_set_parsed_subdata(w, s, offset, unwrap_array(data),
                                       parse_array(w[s].cls, unwrap_array(data)))

\* an optional integer (None is <<>>); "x or d" of Python
Some(v) == <<v>>

None == <<>>

value_or(x, d) == IF x = None \/ x[1] = 0 THEN d ELSE x[1]

Slice(start, stop, step) == [k |-> "slice", start |-> start, stop |-> stop, step |-> step]

Ellipsis == [k |-> "ellipsis", start |-> None, stop |-> None, step |-> None]

\* a key that is neither a slice nor Ellipsis (an integer index)
IndexKey == [k |-> "index", start |-> None, stop |-> None, step |-> None]

\* start, step, stop as DataBuffer.__setitem__ resolves them for a slice
slice_start(self, key) ==
    LET start == value_or(key.start, 0)
    IN  IF start < 0 THEN self.stride + start ELSE start

slice_step(key) == value_or(key.step, 1)

slice_stop(self, key) ==
    LET stop == value_or(key.stop, self.stride)
    IN  IF stop < 0 THEN self.stride + stop ELSE stop

DataBuffer_setitem(w, s, key, data) ==
    LET self == w[s]
        start == IF key.k = "slice" THEN slice_start(self, key) ELSE 0
        nbytes == IF key.k = "ellipsis" THEN array_nbytes(data)
                  ELSE (slice_stop(self, key) - start) * self.stride
        cast == IF data.dtype # self.dtype THEN array_astype(data, self.dtype) ELSE data
    IN  IF key.k = "slice" /\ slice_step(key) <= 0 THEN Raise(w, "AssertionError: step")
        ELSE IF key.k # "ellipsis" /\ (key.k # "slice" \/ slice_step(key) > 1)
             THEN Raise(w, "ValueError: not a contiguous block")
        ELSE IF array_nbytes(data) < nbytes THEN Raise(w, "ValueError: not enough data")
        ELSE IF array_nbytes(data) > nbytes THEN Raise(w, "ValueError: too much data")
        ELSE DataBuffer_set_subdata(w, s, start, cast)

\* the object with the fields DataBuffer.__init__ takes from p
DataBuffer_init_parsed(cls, target, p, count) ==
    [buf |-> [NewBuffer(cls, target) EXCEPT !.dtype = p.dtype, !.vsize = p.vsize,
                                            !.stride = p.stride, !.count = count],
     err |-> p.err]

\* what DataBuffer.__init__ sets, before the check of the data type
DataBuffer_init_fields(cls, target, data) ==
    IF data.t = "ndarray"
    THEN IF parse_array(cls, data).err # ""
         THEN DataBuffer_init_parsed(cls, target, parse_array(cls, data), 0)
         ELSE DataBuffer_set_data(
                  DataBuffer_init_parsed(cls, target, parse_array(cls, data),
                                         parse_array(cls, data).count),
                  "buf", data)
    ELSE IF data.t = "dtype"
    THEN DataBuffer_init_parsed(cls, target, parse_dtype(cls, data.dtype), 0)
    ELSE Raise([buf |-> NewBuffer(cls, target), err |-> ""], "ValueError: needs array or dtype")

\* the check of the data type that ends DataBuffer.__init__
dtype_allowed(cls, dtype) ==
    IF dtype.fields # <<>>
    THEN \A i \in 1..Len(dtype.fields) : dtype.fields[i].base \in DTYPE2GTYPE(cls)
    ELSE dtype.name \in DTYPE2GTYPE(cls)

DataBuffer_init_check(cls, w) ==
    IF Failed(w) THEN w
    ELSE IF ~dtype_allowed(cls, w.buf.dtype) THEN Raise(w, "TypeError: data type not allowed")
    ELSE w

DataBuffer_init(cls, target, data) ==
    DataBuffer_init_check(cls, DataBuffer_init_fields(cls, target, data))

ElementBuffer_init(data) == DataBuffer_init("ElementBuffer", "GL_ELEMENT_ARRAY_BUFFER", data)

VertexBuffer_init(data) == DataBuffer_init("VertexBuffer", "GL_ARRAY_BUFFER", data)

ClientVertexBuffer_init(data) ==
    IF data.t # "ndarray"
    THEN Raise([buf |-> NewBuffer("ClientVertexBuffer", ""), err |-> ""],
               "ValueError: needs a numpy array")
    ELSE DataBuffer_init("ClientVertexBuffer", "GL_ARRAY_BUFFER", data)

ClientElementBuffer_init(data) ==
    IF data.t # "ndarray"
    THEN Raise([buf |-> NewBuffer("ClientElementBuffer", ""), err |-> ""],
               "ValueError: needs a numpy array")
    ELSE DataBuffer_init("ClientElementBuffer", "GL_ELEMENT_ARRAY_BUFFER", data)

Buffer_init(target, data) ==
    LET w0 == [buf |-> NewBuffer("Buffer", target), err |-> ""]
    IN  IF target \notin {"GL_ARRAY_BUFFER", "GL_ELEMENT_ARRAY_BUFFER"}
        THEN Raise(w0, "ValueError: invalid target")
        ELSE IF data.t = "None" THEN w0
        ELSE Buffer_set_data(w0, "buf", data)

\* VertexBufferView.__init__(dtype, base, offset)
VertexBufferView_init_base(w, v, offset) ==
    IF Failed(v) THEN Raise(w, v.err)
    ELSE [w EXCEPT !.view = [v.buf EXCEPT !.offset = offset, !.stride = w.buf.stride]]

VertexBufferView_init(w, dtype, offset) ==
    VertexBufferView_init_base(
        w, DataBuffer_init("VertexBufferView", "GL_ARRAY_BUFFER", Desc(dtype)), offset)

\* DataBuffer.__getitem__(key) for a string key
DataBuffer_getitem(w, key) ==
    LET i == field_index(w.buf.dtype, key)
    IN  IF i = 0 THEN Raise(w, "KeyError: no such field")
        ELSE VertexBufferView_init(w, dtype_getfield(w.buf.dtype, i),
                                   dtype_field_offset(w.buf.dtype, i))

(***************************************************************************)
(* class VertexBufferView: the life-cycle methods forward to the base.     *)
(* class GLObject (vispy/oogl/globject.py) is the base class of Buffer and *)
(* Texture: activate creates the GL object when there is no handle, runs   *)
(* _update when the dirty flag is set, then binds; delete releases the     *)
(* handle when there is one.                                               *)
(***************************************************************************)
RECURSIVE GLObject_activate(_, _)
RECURSIVE GLObject_deactivate(_, _)
RECURSIVE GLObject_delete(_, _)

VertexBufferView_create(w) ==
    LET w1 == Buffer_create(w, "buf")
    IN  [w1 EXCEPT !.view.handle = w1.buf.handle]

VertexBufferView_delete(w) == GLObject_delete(w, "buf")

\* _activate that binds the base buffer itself instead of activating it
VertexBufferView_activate_bind_only(w) == Buffer_activate(w, "buf")

VertexBufferView_activate(w) == GLObject_activate(w, "buf")

VertexBufferView_deactivate(w) == GLObject_deactivate(w, "buf")

VertexBufferView_update(w) == w

(***************************************************************************)
(* Texture: the GL device as a texture sees it, and the flush.             *)
(* gl.textures holds one [handle, size] per name that was bound at least   *)
(* once (GL makes a name a texture at its first bind); size is the size of *)
(* the level 0 image, <<>> while none is defined.  The world of a texture  *)
(* call also carries the second name glGenTextures hands out (fresh2), the *)
(* extensions of the context (ext), the texture the target is bound to     *)
(* (bound), and whether the device denies every texture (lost).            *)
(***************************************************************************)
NoParams ==
    [GL_TEXTURE_MAG_FILTER |-> "unset", GL_TEXTURE_MIN_FILTER |-> "unset",
     GL_TEXTURE_WRAP_S |-> "unset", GL_TEXTURE_WRAP_T |-> "unset",
     GL_TEXTURE_WRAP_R |-> "unset"]

\* the keys of a parameter dict, in the order the model walks them
ParamKeys ==
    <<"GL_TEXTURE_MAG_FILTER", "GL_TEXTURE_MIN_FILTER", "GL_TEXTURE_WRAP_S",
      "GL_TEXTURE_WRAP_T", "GL_TEXTURE_WRAP_R">>

Texture_ndim(target) ==
    IF target = "GL_TEXTURE_2D" THEN 2 ELSE IF target = "GL_TEXTURE_3D" THEN 3 ELSE 0

\* shape[:n]
take(shape, n) == SubSeq(shape, 1, IF n < Len(shape) THEN n ELSE Len(shape))

\* s[::-1]
RECURSIVE reversed(_)
reversed(s) == IF s = <<>> THEN <<>> ELSE Append(reversed(Tail(s)), Head(s))

NoTexCall ==
    [f |-> "", target |-> "", handle |-> 0, level |-> 0, format |-> "", offset |-> <<>>,
     size |-> <<>>, gltype |-> "", data |-> NotArray, param |-> "", value |-> ""]

ext_available(w, name) == name \in w.ext

glGenTextures(w) ==
    GLCall([w EXCEPT !.gl.names = @ \cup {w.fresh}, !.fresh = w.fresh2],
           [NoTexCall EXCEPT !.f = "glGenTextures", !.handle = w.fresh])

glDeleteTextures(w, handle) ==
    GLCall([w EXCEPT !.gl.names = @ \ {handle},
                     !.gl.textures = {t \in @ : t.handle # handle},
                     !.bound = IF @ = handle THEN 0 ELSE @],
           [NoTexCall EXCEPT !.f = "glDeleteTextures", !.handle = handle])

glBindTexture(w, target, handle) ==
    GLCall([w EXCEPT !.bound = handle,
                     !.gl.textures =
                         IF handle \in w.gl.names /\ \A t \in @ : t.handle # handle
                         THEN @ \cup {[handle |-> handle, size |-> <<>>]}
                         ELSE @],
           [NoTexCall EXCEPT !.f = "glBindTexture", !.target = target, !.handle = handle])

\* the answer is the device's; it is no call that changes anything
glIsTexture(w, handle) == ~w.lost /\ \E t \in w.gl.textures : t.handle = handle

glTexParameter(w, target, param, value) ==
    GLCall(w, [NoTexCall EXCEPT !.f = "glTexParameter", !.target = target,
                                !.handle = w.bound, !.param = param, !.value = value])

glPixelStorei(w, pname, alignment) ==
    GLCall(w, [NoTexCall EXCEPT !.f = "glPixelStorei", !.param = pname,
                                !.size = <<alignment>>])

\* glTexImage2D and glTexImage3D: (re)defines the image of the bound texture
glTexImage(w, target, level, format, size, gltype, data) ==
    GLCall([w EXCEPT !.gl.textures =
                        {IF t.handle = w.bound /\ level = 0
                         THEN [t EXCEPT !.size = size] ELSE t : t \in @}],
           [NoTexCall EXCEPT !.f = "glTexImage", !.target = target, !.handle = w.bound,
                             !.level = level, !.format = format, !.size = size,
                             !.gltype = gltype, !.data = data])

\* glTexSubImage2D and glTexSubImage3D
glTexSubImage(w, target, level, offset, size, format, gltype, data) ==
    GLCall(w, [NoTexCall EXCEPT !.f = "glTexSubImage", !.target = target,
                                !.handle = w.bound, !.level = level, !.offset = offset,
                                !.size = size, !.format = format, !.gltype = gltype,
                                !.data = data])

\* get_format that looks at the trailing size whatever the rank
get_format_any_rank(shape, target) ==
    LET ndim == Texture_ndim(target)
    IN  IF ndim = 0 THEN ""
        ELSE IF Len(shape) = ndim THEN "GL_LUMINANCE"
        ELSE IF shape[Len(shape)] = 1 THEN "GL_LUMINANCE"
        ELSE IF shape[Len(shape)] = 2 THEN "GL_LUMINANCE_ALPHA"
        ELSE IF shape[Len(shape)] = 3 THEN "GL_RGB"
        ELSE IF shape[Len(shape)] = 4 THEN "GL_RGBA"
        ELSE ""

\* "" when get_format raises
get_format(shape, target) ==
    LET ndim == Texture_ndim(target)
    IN  IF ndim = 0 THEN ""
        ELSE IF Len(shape) = ndim THEN "GL_LUMINANCE"
        ELSE IF Len(shape) = ndim + 1 /\ shape[ndim + 1] = 1 THEN "GL_LUMINANCE"
        ELSE IF Len(shape) = ndim + 1 /\ shape[ndim + 1] = 2 THEN "GL_LUMINANCE_ALPHA"
        ELSE IF Len(shape) = ndim + 1 /\ shape[ndim + 1] = 3 THEN "GL_RGB"
        ELSE IF Len(shape) = ndim + 1 /\ shape[ndim + 1] = 4 THEN "GL_RGBA"
        ELSE ""

\* the dtype name of the array before the contrast limits are applied; ""
\* when the dtype cannot be converted
convert_astype(name, clim) ==
    CASE name = "bool" -> "uint8"
      [] name = "uint8" -> IF clim # None THEN "float32" ELSE "uint8"
      [] name \in {"float16", "float32"} -> name
      [] name = "float64" -> "float32"
      [] name \in {"int8", "int16", "int32", "uint16", "uint32"} -> "float32"
      [] OTHER -> ""

\* the dtype name convert_data hands back for an array that is name after
\* the first conversion
convert_final(w, name) ==
    IF name = "uint8" THEN "uint8"
    ELSE IF name = "float16" /\ ext_available(w, "texture_half_float") THEN "float16"
    ELSE IF name = "float32" /\ ext_available(w, "texture_float") THEN "float32"
    ELSE IF name \in {"float16", "float32"} THEN "uint8"
    ELSE ""

(***************************************************************************)
(* convert_data on the value of one element.  A value is the fraction      *)
(* <<n, d>>, d > 0: the float32 arithmetic of convert_data is exact, or    *)
(* rounds without crossing an integer, for the values the model feeds it.  *)
(***************************************************************************)
SignedIntNames == {"int8", "int16"}

WideUnsignedNames == {"uint16"}

\* int(data.dtype.name[3:]) and int(data.dtype.name[4:])
bit_width(name) == IF name \in {"int8", "uint8"} THEN 8 ELSE 16

\* limits derived over the full range of an unsigned type
convert_clim_full_range(name, clim) ==
    IF name = "bool" THEN None
    ELSE IF name \in SignedIntNames /\ clim = None
    THEN <<-((2 ^ bit_width(name)) \div 2), ((2 ^ bit_width(name)) \div 2) - 1>>
    ELSE IF name \in WideUnsignedNames /\ clim = None
    THEN <<0, (2 ^ bit_width(name)) - 1>>
    ELSE clim

\* clim as it stands before it is applied: None for bool, the limits derived
\* from the bit width when none were given for an integer type
convert_clim(name, clim) ==
    IF name = "bool" THEN None
    ELSE IF name \in SignedIntNames /\ clim = None
    THEN <<-((2 ^ bit_width(name)) \div 2), ((2 ^ bit_width(name)) \div 2) - 1>>
    ELSE IF name \in WideUnsignedNames /\ clim = None
    THEN <<0, (2 ^ bit_width(name)) \div 2>>
    ELSE clim

\* data -= clim[0]; data *= 1.0 / (clim[1] - clim[0]), with clim[1] > clim[0]
convert_apply_clim(v, clim) ==
    IF clim = None THEN v
    ELSE <<v[1] - clim[1] * v[2], v[2] * (clim[2] - clim[1])>>

\* data *= 256.0; data[data < 0.0] = 0.0; data[data > 256.0] = 256.0
convert_scale_clip(v) ==
    IF v[1] < 0 THEN <<0, 1>>
    ELSE IF 256 * v[1] > 256 * v[2] THEN <<256, 1>>
    ELSE <<256 * v[1], v[2]>>

\* astype(np.uint8) of a float in [0, 256]: truncation; 256 is outside the
\* range of the type and the C cast of it is undefined: cast is what the
\* build makes of it, "wrap" (0) or "saturate" (255)
convert_astype_uint8(v, cast) ==
    IF v[1] \div v[2] > 255 THEN (IF cast = "wrap" THEN <<0, 1>> ELSE <<255, 1>>)
    ELSE <<v[1] \div v[2], 1>>

\* the last block of convert_data on the value v of dtype name
convert_final_value(w, name, v, cast) ==
    IF convert_final(w, name) = name THEN v
    ELSE convert_astype_uint8(convert_scale_clip(v), cast)

\* convert_data(data, clim) for an array of dtype name whose element is v:
\* the dtype, the element and the limits applied; err when it raises
convert_element(w, name, v, clim, cast) ==
    IF convert_astype(name, clim) = ""
    THEN [err |-> "TextureError: could not convert data type", dtype |-> "",
          value |-> v, clim |-> clim]
    ELSE IF convert_clim(name, clim) # None
            /\ convert_clim(name, clim)[1] = convert_clim(name, clim)[2]
    THEN [err |-> "ZeroDivisionError", dtype |-> "", value |-> v, clim |-> clim]
    ELSE [err |-> "",
          dtype |-> convert_final(w, convert_astype(name, clim)),
          value |-> convert_final_value(w, convert_astype(name, clim),
                                        convert_apply_clim(v, convert_clim(name, clim)),
                                        cast),
          clim |-> convert_clim(name, clim)]

\* convert_data(data, clim): the array handed back, NotArray when it raises
convert_data(w, data, clim) ==
    IF convert_astype(data.dtype.name, clim) = "" THEN NotArray
    ELSE Arr(Plain(convert_final(w, convert_astype(data.dtype.name, clim))), data.shape)

Texture_DTYPE2GTYPE(name) ==
    CASE name = "uint8" -> "GL_UNSIGNED_BYTE"
      [] name = "float16" -> "GL_HALF_FLOAT"
      [] name = "float32" -> "GL_FLOAT"
      [] OTHER -> ""

Texture_create(w) == [glGenTextures(w) EXCEPT !.tex.handle = w.fresh]

Texture_delete(w) == glDeleteTextures(w, w.tex.handle)

Texture_activate(w) == glBindTexture(w, w.tex.target, w.tex.handle)

Texture_deactivate(w) == glBindTexture(w, w.tex.target, 0)

\* size of _get_size_and_type(data, ndim)
Texture_get_size(shape, ndim) == reversed(take(shape, ndim))

Texture_get_alignment(width) ==
    IF width % 4 = 0 THEN 4 ELSE IF width % 8 = 0 THEN 8 ELSE IF width % 2 = 0 THEN 2 ELSE 1

Texture_allocate_storage(w, shape, format, level) ==
    glTexImage(w, w.tex.target, level, format,
               Texture_get_size(shape, Texture_ndim(w.tex.target)),
               "GL_UNSIGNED_BYTE", NoneArg)

\* the upload between the two glPixelStorei calls
Texture_upload_aligned(w, data, format, level, alignment) ==
    IF alignment = 4
    THEN glTexImage(w, w.tex.target, level, format,
                    Texture_get_size(data.shape, Texture_ndim(w.tex.target)),
                    Texture_DTYPE2GTYPE(data.dtype.name), data)
    ELSE glPixelStorei(
             glTexImage(glPixelStorei(w, "GL_UNPACK_ALIGNMENT", alignment),
                        w.tex.target, level, format,
                        Texture_get_size(data.shape, Texture_ndim(w.tex.target)),
                        Texture_DTYPE2GTYPE(data.dtype.name), data),
             "GL_UNPACK_ALIGNMENT", 4)

Texture_upload_data(w, data, format, level) ==
    IF Texture_DTYPE2GTYPE(data.dtype.name) = ""
    THEN Raise(w, "TextureError: cannot translate datatype")
    ELSE Texture_upload_aligned(w, data, format, level,
                                Texture_get_alignment(data.shape[Len(data.shape)]))

Texture_upload_subdata(w, data, offset, format, level) ==
    IF Texture_DTYPE2GTYPE(data.dtype.name) = ""
    THEN Raise(w, "TextureError: cannot translate datatype")
    ELSE IF Len(offset) # Len(Texture_get_size(data.shape, Texture_ndim(w.tex.target)))
    THEN Raise(w, "AssertionError")
    ELSE glTexSubImage(w, w.tex.target, level, reversed(offset),
                       Texture_get_size(data.shape, Texture_ndim(w.tex.target)),
                       format, Texture_DTYPE2GTYPE(data.dtype.name), data)

\* for param, value in params.items(): glTexParameter(target, param, value),
\* over the keys from the i-th on
RECURSIVE Texture_apply_params(_, _, _)
Texture_apply_params(w, params, i) ==
    IF i > Len(ParamKeys) THEN w
    ELSE IF params[ParamKeys[i]] = "unset" THEN Texture_apply_params(w, params, i + 1)
    ELSE Texture_apply_params(
             glTexParameter(w, w.tex.target, ParamKeys[i], params[ParamKeys[i]]),
             params, i + 1)

\* the texture deleted and created again whether or not it is valid
Texture_recreate_always(w) == Texture_create(GLObject_delete(w, "tex"))

\* if self._valid: self.delete(); self._create()
Texture_recreate(w) ==
    IF w.tex.valid THEN Texture_create(GLObject_delete(w, "tex")) ELSE w

\* the branch of _process_pending_data that uploads at an offset, once the
\* texture is bound
\* the update of a region uploaded without asking the device for the texture
Texture_process_bound_unchecked(w, data, offset, level, format) ==
    Texture_upload_subdata(w, data, offset, format, level)

Texture_process_bound(w, data, offset, level, format) ==
    IF w.tex.handle <= 0 \/ ~glIsTexture(w, w.tex.handle)
    THEN Raise(w, "TextureError: no texture")
    ELSE Texture_upload_subdata(w, data, offset, format, level)

Texture_process_sub(w, data, offset, level, format) ==
    Texture_process_bound(glBindTexture(w, w.tex.target, w.tex.handle),
                          data, offset, level, format)

\* the upload of the other branch, on the texture made current
Texture_upload_full(w, data, level, format) ==
    IF data.t = "tuple" THEN Texture_allocate_storage(w, data.shape, format, level)
    ELSE Texture_upload_data(w, data, format, level)

\* only the pending parameters applied after the upload
Texture_reapply_pending(w) ==
    IF Failed(w) THEN w
    ELSE [Texture_apply_params(w, w.tex.pending_params, 1)
              EXCEPT !.tex.pending_params = NoParams]

\* the parameters re-applied after the upload
Texture_reapply_params(w) ==
    IF Failed(w) THEN w
    ELSE [Texture_apply_params(w, w.tex.texture_params, 1)
              EXCEPT !.tex.pending_params = NoParams]

\* the branch of _process_pending_data that (re)creates the texture
Texture_process_full(w, data, level, format) ==
    Texture_reapply_params(
        Texture_upload_full(Texture_activate(Texture_recreate(w)), data, level, format))

\* _process_pending_data once data is converted and offset settled
Texture_process_format(w, data, offset, level, format) ==
    IF format = "" THEN Raise(w, "TextureError: cannot determine format")
    ELSE IF offset # None THEN Texture_process_sub(w, data, offset, level, format)
    ELSE Texture_process_full(w, data, level, format)

\* offset once the fast path has been considered: [0 for i in shape[:ndim]]
Texture_fast_offset(w, data, offset) ==
    IF offset = None /\ Some(data.shape) = w.tex.texture_shape /\ w.tex.valid
    THEN [i \in 1..Len(take(data.shape, Texture_ndim(w.tex.target))) |-> 0]
    ELSE offset

Texture_process_converted(w, data, offset, level, format) ==
    IF data.t # "ndarray" THEN Raise(w, "TextureError: could not convert data type")
    ELSE Texture_process_format(
             w, data, Texture_fast_offset(w, data, offset), level,
             IF format = "None" THEN get_format(data.shape, w.tex.target) ELSE format)

Texture_process_pending_data(w, item) ==
    IF item.data.t = "ndarray"
    THEN Texture_process_converted(w, convert_data(w, item.data, item.clim),
                                   item.offset, item.level, item.format)
    ELSE IF item.data.t = "tuple"
    THEN Texture_process_format(
             w, item.data, item.offset, item.level,
             IF item.format = "None" THEN get_format(item.data.shape, w.tex.target)
             ELSE item.format)
    ELSE Raise(w, "TextureError: data is not a valid type")

\* while self._pending_subdata: pop(0) and process
RECURSIVE Texture_update_subdata(_)
Texture_update_subdata(w) ==
    IF Failed(w) \/ w.tex.pending_subdata = <<>> THEN w
    ELSE Texture_update_subdata(
             Texture_process_pending_data([w EXCEPT !.tex.pending_subdata = Tail(@)],
                                          Head(w.tex.pending_subdata)))

\* the end of _update: the validity check, the bind, and the pending
\* parameters, popped one by one
Texture_update_params(w) ==
    IF Failed(w) THEN w
    ELSE IF ~glIsTexture(w, w.tex.handle)
    THEN Raise(w, "TextureError: texture is invalid")
    ELSE [Texture_apply_params(Texture_activate(w), w.tex.pending_params, 1)
              EXCEPT !.tex.pending_params = NoParams]

\* _update raising where the device denies the texture just written
Texture_update_data_raises(w) ==
    IF Failed(w) THEN w
    ELSE IF ~glIsTexture(w, w.tex.handle)
    THEN Raise(w, "TextureError: texture is invalid")
    ELSE Texture_update_params(Texture_update_subdata(w))

\* _update after the pending data has been processed
Texture_update_data(w) ==
    IF Failed(w) THEN w
    ELSE IF ~glIsTexture(w, w.tex.handle) THEN [w EXCEPT !.tex.handle = 0]
    ELSE Texture_update_params(Texture_update_subdata(w))

\* _update without the check for 3D textures
Texture_update_unchecked(w) ==
    IF w.tex.pending_data # None
    THEN Texture_update_data(
             Texture_process_pending_data([w EXCEPT !.tex.pending_data = None],
                                          w.tex.pending_data[1]))
    ELSE Texture_update_params(Texture_update_subdata(w))

Texture_update(w) ==
    IF w.tex.target = "GL_TEXTURE_3D" /\ ~ext_available(w, "GL_texture_3D")
    THEN Raise(w, "TextureError: 3D Texture not available")
    ELSE IF w.tex.pending_data # None
    THEN Texture_update_data(
             Texture_process_pending_data([w EXCEPT !.tex.pending_data = None],
                                          w.tex.pending_data[1]))
    ELSE Texture_update_params(Texture_update_subdata(w))

(***************************************************************************)
(* classes ClientVertexBuffer and ClientElementBuffer: the five life-cycle *)
(* methods and the two indexing methods are "pass" in both.                *)
(***************************************************************************)
ClientClasses == {"ClientVertexBuffer", "ClientElementBuffer"}

\* a client buffer whose _create makes a GPU buffer, as Buffer._create does
ClientBuffer_create_on_gpu(w) == Buffer_create(w, "buf")

ClientBuffer_create(w) == w

ClientBuffer_delete(w) == w

ClientBuffer_activate(w) == w

ClientBuffer_deactivate(w) == w

ClientBuffer_update(w) == w

\* returns None
ClientBuffer_getitem(w, key) == w

ClientBuffer_setitem(w, key, data) == w

BufferClasses == {"Buffer", "VertexBuffer", "ElementBuffer"}

\* self._create(), self._delete(), self._activate(), self._deactivate(),
\* self._update() of the object s
obj_create(w, s) ==
    IF w[s].cls = "VertexBufferView" THEN VertexBufferView_create(w)
    ELSE IF w[s].cls = "Texture" THEN Texture_create(w)
    ELSE IF w[s].cls \in ClientClasses THEN ClientBuffer_create(w)
    ELSE Buffer_create(w, s)

obj_delete(w, s) ==
    IF w[s].cls = "VertexBufferView" THEN VertexBufferView_delete(w)
    ELSE IF w[s].cls = "Texture" THEN Texture_delete(w)
    ELSE IF w[s].cls \in ClientClasses THEN ClientBuffer_delete(w)
    ELSE Buffer_delete(w, s)

obj_activate(w, s) ==
    IF w[s].cls = "VertexBufferView" THEN VertexBufferView_activate(w)
    ELSE IF w[s].cls = "Texture" THEN Texture_activate(w)
    ELSE IF w[s].cls \in ClientClasses THEN ClientBuffer_activate(w)
    ELSE Buffer_activate(w, s)

obj_deactivate(w, s) ==
    IF w[s].cls = "VertexBufferView" THEN VertexBufferView_deactivate(w)
    ELSE IF w[s].cls = "Texture" THEN Texture_deactivate(w)
    ELSE IF w[s].cls \in ClientClasses THEN ClientBuffer_deactivate(w)
    ELSE Buffer_deactivate(w, s)

obj_update(w, s) ==
    IF w[s].cls = "VertexBufferView" THEN VertexBufferView_update(w)
    ELSE IF w[s].cls = "Texture" THEN Texture_update(w)
    ELSE IF w[s].cls \in ClientClasses THEN ClientBuffer_update(w)
    ELSE Buffer_update(w, s)

GLObject_activate(w, s) ==
    LET w1 == IF w[s].handle = 0 THEN obj_create(w, s) ELSE w
        w2 == IF w1[s].need_update
              THEN LET u == obj_update(w1, s)
                   IN  IF Failed(u) THEN u ELSE [u EXCEPT ![s].need_update = FALSE]
              ELSE w1
    IN  IF Failed(w2) THEN w2
        ELSE [obj_activate(w2, s) EXCEPT ![s].valid = TRUE]

GLObject_deactivate(w, s) == obj_deactivate(w, s)

\* delete that calls the device whether there is a handle or not
GLObject_delete_unguarded(w, s) ==
    [obj_delete(w, s) EXCEPT ![s].handle = 0, ![s].valid = FALSE]

\* delete(): nothing happens when the handle is absent
GLObject_delete(w, s) ==
    IF w[s].handle # 0
    THEN [obj_delete(w, s) EXCEPT ![s].handle = 0, ![s].valid = FALSE]
    ELSE w

(***************************************************************************)
(* Texture: the setters.  A GL enum is the string of its name, "None" is   *)
(* Python's None, and a Python string argument s is "str:" followed by s.  *)
(***************************************************************************)
NewTexture(target) ==
    [cls |-> "Texture", target |-> target,
     handle |-> 0, valid |-> FALSE, need_update |-> FALSE,
     pending_data |-> None, texture_shape |-> None, pending_subdata |-> <<>>,
     texture_params |-> NoParams, pending_params |-> NoParams]

\* a tuple of ints given where an array is expected or as the storage shape
ShapeTuple(shape) == [t |-> "tuple", dtype |-> NoDType, shape |-> shape]

PendingData(data, offset, level, format, clim) ==
    [data |-> data, offset |-> offset, level |-> level, format |-> format, clim |-> clim]

\* "" when gl has no attribute of the upper-cased, GL_-prefixed name
string_to_enum(param) ==
    CASE param = "str:nearest" -> "GL_NEAREST"
      [] param = "str:gl_linear" -> "GL_LINEAR"
      [] param = "str:repeat" -> "GL_REPEAT"
      [] param = "str:bogus" -> ""
      [] OTHER -> param

MagFilters == {"None", "GL_NEAREST", "GL_LINEAR"}

MinFilters ==
    MagFilters \cup {"GL_NEAREST_MIPMAP_NEAREST", "GL_NEAREST_MIPMAP_LINEAR",
                     "GL_LINEAR_MIPMAP_NEAREST", "GL_LINEAR_MIPMAP_LINEAR"}

Wrappings == {"None", "GL_REPEAT", "GL_CLAMP_TO_EDGE", "GL_MIRRORED_REPEAT"}

Formats == {"None", "GL_RGB", "GL_RGBA", "GL_LUMINANCE", "GL_LUMINANCE_ALPHA", "GL_ALPHA"}

set_param(params, key, value) ==
    IF value = "None" THEN params ELSE [params EXCEPT ![key] = value]

\* set_filter that records the filters as pending only
Texture_set_filter_pending_only(w, mag_filter, min_filter) ==
    LET mag == string_to_enum(mag_filter)
        min == string_to_enum(min_filter)
    IN  IF mag = "" \/ min = "" THEN Raise(w, "AttributeError: gl")
        ELSE IF mag \notin MagFilters \/ min \notin MinFilters
        THEN Raise(w, "AssertionError")
        ELSE [w EXCEPT
                !.tex.pending_params =
                    set_param(set_param(@, "GL_TEXTURE_MAG_FILTER", mag),
                              "GL_TEXTURE_MIN_FILTER", min),
                !.tex.need_update = TRUE]

Texture_set_filter(w, mag_filter, min_filter) ==
    LET mag == string_to_enum(mag_filter)
        min == string_to_enum(min_filter)
    IN  IF mag = "" \/ min = "" THEN Raise(w, "AttributeError: gl")
        ELSE IF mag \notin MagFilters \/ min \notin MinFilters
        THEN Raise(w, "AssertionError")
        ELSE [w EXCEPT
                !.tex.pending_params =
                    set_param(set_param(@, "GL_TEXTURE_MAG_FILTER", mag),
                              "GL_TEXTURE_MIN_FILTER", min),
                !.tex.texture_params =
                    set_param(set_param(@, "GL_TEXTURE_MAG_FILTER", mag),
                              "GL_TEXTURE_MIN_FILTER", min),
                !.tex.need_update = TRUE]

Texture_set_wrapping(w, wrapx, wrapy, wrapz) ==
    LET x == string_to_enum(wrapx)
        y == string_to_enum(wrapy)
        z == string_to_enum(wrapz)
        set(params) ==
            set_param(set_param(set_param(params, "GL_TEXTURE_WRAP_S", x),
                                "GL_TEXTURE_WRAP_T", y),
                      "GL_TEXTURE_WRAP_R", z)
    IN  IF x = "" \/ y = "" \/ z = "" THEN Raise(w, "AttributeError: gl")
        ELSE IF x \notin Wrappings \/ y \notin Wrappings \/ z \notin Wrappings
        THEN Raise(w, "AssertionError")
        ELSE [w EXCEPT !.tex.pending_params = set(@),
                       !.tex.texture_params = set(@),
                       !.tex.need_update = TRUE]

\* clim is None or a tuple; the tuple is a sequence here
clim_ok(clim) == clim = None \/ Len(clim) = 2

\* set_subdata without the check for an established shape
Texture_set_subdata_unchecked(w, offset, data, level, format, clim) ==
    LET ndim == Texture_ndim(w.tex.target)
    IN  IF data.t # "ndarray" THEN Raise(w, "ValueError: not an array")
        ELSE IF Len(data.shape) \notin {ndim, ndim + 1} THEN Raise(w, "AssertionError")
        ELSE IF Len(offset) # ndim THEN Raise(w, "AssertionError")
        ELSE IF level < 0 \/ format \notin Formats \/ ~clim_ok(clim)
        THEN Raise(w, "AssertionError")
        ELSE [w EXCEPT
                !.tex.pending_subdata =
                    Append(@, PendingData(data, offset, level, format, clim)),
                !.tex.need_update = TRUE]

Texture_set_subdata(w, offset, data, level, format, clim) ==
    LET ndim == Texture_ndim(w.tex.target)
    IN  IF w.tex.texture_shape = None THEN Raise(w, "RuntimeError: no data or storage yet")
        ELSE IF data.t # "ndarray" THEN Raise(w, "ValueError: not an array")
        ELSE IF Len(data.shape) \notin {ndim, ndim + 1} THEN Raise(w, "AssertionError")
        ELSE IF Len(offset) # ndim THEN Raise(w, "AssertionError")
        ELSE IF level < 0 \/ format \notin Formats \/ ~clim_ok(clim)
        THEN Raise(w, "AssertionError")
        ELSE [w EXCEPT
                !.tex.pending_subdata =
                    Append(@, PendingData(data, offset, level, format, clim)),
                !.tex.need_update = TRUE]

\* set_data that leaves the logical shape as it was
Texture_set_data_keeps_shape(w, data, level, format, clim) ==
    LET ndim == Texture_ndim(w.tex.target)
    IN  IF data.t # "ndarray" THEN Raise(w, "ValueError: not an array")
        ELSE IF Len(data.shape) \notin {ndim, ndim + 1} THEN Raise(w, "AssertionError")
        ELSE IF level < 0 \/ format \notin Formats \/ ~clim_ok(clim)
        THEN Raise(w, "AssertionError")
        ELSE [w EXCEPT
                !.tex.pending_subdata = <<>>,
                !.tex.pending_data = Some(PendingData(data, None, level, format, clim)),
                !.tex.need_update = TRUE]

Texture_set_data(w, data, level, format, clim) ==
    LET ndim == Texture_ndim(w.tex.target)
    IN  IF data.t # "ndarray" THEN Raise(w, "ValueError: not an array")
        ELSE IF Len(data.shape) \notin {ndim, ndim + 1} THEN Raise(w, "AssertionError")
        ELSE IF level < 0 \/ format \notin Formats \/ ~clim_ok(clim)
        THEN Raise(w, "AssertionError")
        ELSE [w EXCEPT
                !.tex.pending_subdata = <<>>,
                !.tex.pending_data = Some(PendingData(data, None, level, format, clim)),
                !.tex.texture_shape = Some(data.shape),
                !.tex.need_update = TRUE]

Texture_set_storage(w, shape, level, format) ==
    LET ndim == Texture_ndim(w.tex.target)
    IN  IF /\ format = "None"
           /\ level = 0
           /\ w.tex.texture_shape # None
           /\ take(w.tex.texture_shape[1], ndim) = take(shape, ndim)
        THEN w
        ELSE IF Len(shape) \notin {ndim, ndim + 1} THEN Raise(w, "AssertionError")
        ELSE IF \E i \in 1..Len(shape) : shape[i] <= 0 THEN Raise(w, "AssertionError")
        ELSE IF level < 0 \/ format \notin Formats THEN Raise(w, "AssertionError")
        ELSE [w EXCEPT
                !.tex.pending_data =
                    Some(PendingData(ShapeTuple(shape), None, level, format, None)),
                !.tex.texture_shape = Some(shape),
                !.tex.need_update = TRUE]

\* data is None, an array, a tuple, or anything else
Texture_init(target, data, format, clim) ==
    LET w0 == [buf |-> NoBuffer, view |-> NoBuffer, tex |-> NewTexture(target),
               gl |-> [names |-> {}, textures |-> {}], calls |-> <<>>, err |-> "", fresh |-> 0]
        w1 == Texture_set_filter(w0, "GL_LINEAR", "GL_LINEAR")
        w2 == IF target = "GL_TEXTURE_3D"
              THEN Texture_set_wrapping(w1, "GL_CLAMP_TO_EDGE", "GL_CLAMP_TO_EDGE",
                                        "GL_CLAMP_TO_EDGE")
              ELSE Texture_set_wrapping(w1, "GL_CLAMP_TO_EDGE", "GL_CLAMP_TO_EDGE", "None")
    IN  IF target \notin {"GL_TEXTURE_2D", "GL_TEXTURE_3D"}
        THEN Raise(w0, "ValueError: unsupported target")
        ELSE IF data.t = "None" THEN w2
        ELSE IF data.t = "ndarray" THEN Texture_set_data(w2, data, 0, format, clim)
        ELSE IF data.t = "tuple" THEN Texture_set_storage(w2, data.shape, 0, format)
        ELSE Raise(w2, "ValueError: invalid value")

(***************************************************************************)
(* The values the calls are made with.                                     *)
(***************************************************************************)
U8 == Plain("uint8")

U16 == Plain("uint16")

F64 == Plain("float64")

\* two fields: a, two uint8, at byte 0 and b, one uint8, at byte 2
S2 == Struct(<<Field("a", "uint8", 2), Field("b", "uint8", 0)>>)

\* position, three float32, at byte 0 and color, four float32, at byte 12
PosColor == Struct(<<Field("position", "float32", 3), Field("color", "float32", 4)>>)

Sizes == {1, MaxCount}

StructArrays == {Arr(S2, <<n>>) : n \in Sizes \cup {0}}

ArgArrays ==
    {Arr(d, <<n>>) : d \in {U8, U16}, n \in Sizes}
    \cup {Arr(U8, <<1, 2>>), Arr(U16, <<1, 2>>)}
    \cup StructArrays

ByteArrays == {Arr(U8, <<n>>) : n \in Sizes}

Offsets == -1..MaxCount

Keys ==
    {Ellipsis, IndexKey,
     Slice(None, None, None), Slice(Some(1), Some(MaxCount), None),
     Slice(Some(0), Some(1), None), Slice(Some(0), Some(0), None),
     Slice(Some(-1), None, None), Slice(None, Some(-1), None),
     Slice(None, None, Some(2)), Slice(None, None, Some(-1))}

FieldKeys == {"b", "c", "color"}

ByteCtors ==
    {[cls |-> "Buffer", target |-> t, data |-> d] :
        t \in {"GL_ARRAY_BUFFER", "GL_TEXTURE_2D"},
        d \in {NoneArg, NotArray, Arr(U8, <<MaxCount>>)}}

DataCtors ==
    {[cls |-> "VertexBuffer", target |-> "GL_ARRAY_BUFFER", data |-> d] :
        d \in {Desc(U8), Desc(S2), Desc(F64), Arr(S2, <<MaxCount>>), Arr(U16, <<1, 2>>)}}
    \cup {[cls |-> "ElementBuffer", target |-> "GL_ELEMENT_ARRAY_BUFFER", data |-> d] :
        d \in {Desc(U16), Arr(U16, <<MaxCount>>), Desc(S2)}}

\* the structured vertex buffers a view is taken of
ViewCtors ==
    {[cls |-> "VertexBuffer", target |-> "GL_ARRAY_BUFFER", data |-> d] :
        d \in {Desc(S2), Arr(S2, <<MaxCount>>), Arr(PosColor, <<100>>)}}

TexCtors ==
    {[cls |-> "Texture", target |-> t, data |-> d] :
        t \in {"GL_TEXTURE_2D", "GL_TEXTURE_3D", "GL_ARRAY_BUFFER"},
        d \in {NoneArg, Arr(U8, <<1, 1>>), ShapeTuple(<<1, 1>>), NotArray}}

Construct(c) ==
    IF c.cls = "Texture" THEN Texture_init(c.target, c.data, "None", None)
    ELSE IF c.cls = "Buffer" THEN Buffer_init(c.target, c.data)
    ELSE IF c.cls = "VertexBuffer" THEN VertexBuffer_init(c.data)
    ELSE IF c.cls = "ClientVertexBuffer" THEN ClientVertexBuffer_init(c.data)
    ELSE IF c.cls = "ClientElementBuffer" THEN ClientElementBuffer_init(c.data)
    ELSE ElementBuffer_init(c.data)

FreshNames == {h \in 1..MaxName : h \notin gl.names}

(***************************************************************************)
(* The state machine.  last is the call made last: its name, "ok" or the   *)
(* exception it raised, and the value it returned (0 when none).           *)
(***************************************************************************)
World(h) ==
    [buf |-> buf, view |-> view, tex |-> tex, gl |-> gl, calls |-> <<>>, err |-> "", fresh |-> h]

Result(w) == IF w.err = "" THEN "ok" ELSE w.err

Commit(w, op, ret) ==
    /\ buf' = w.buf
    /\ view' = w.view
    /\ tex' = w.tex
    /\ gl' = w.gl
    /\ gl_calls' = w.calls
    /\ last' = [op |-> op, res |-> Result(w), ret |-> ret]

\* the state once the constructor c has returned w
Constructed(c, w) ==
    /\ buf = IF Failed(w) THEN NoBuffer ELSE w.buf
    /\ view = NoBuffer
    /\ tex = IF Failed(w) \/ c.cls # "Texture" THEN NoBuffer ELSE w.tex
    /\ gl = [names |-> {}, textures |-> {}]
    /\ gl_calls = <<>>
    /\ last = [op |-> "__init__", res |-> Result(w), ret |-> 0]

InitWith(ctors) == \E c \in ctors : Constructed(c, Construct(c))

IsByteBuffer == buf.cls = "Buffer"

IsDataBuffer == buf.cls \in {"VertexBuffer", "ElementBuffer"}

HasView == view.cls = "VertexBufferView"

\* the calls, for the object s and inputs drawn from the given sets
call_set_nbytes(s, sizes) ==
    \E n \in sizes : Commit(Buffer_set_nbytes(World(0), s, n), "set_nbytes", 0)

call_Buffer_set_data(s, arrays) ==
    \E a \in arrays : Commit(Buffer_set_data(World(0), s, a), "set_data", 0)

call_Buffer_set_subdata(s, offsets, arrays) ==
    \E o \in offsets, a \in arrays :
        Commit(Buffer_set_subdata(World(0), s, o, a), "set_subdata", 0)

call_set_count(s, counts) ==
    \E n \in counts : Commit(set_count(World(0), s, n), "set_count", 0)

call_set_data(s, arrays) ==
    \E a \in arrays : Commit(DataBuffer_set_data(World(0), s, a), "set_data", 0)

call_set_subdata(s, offsets, arrays) ==
    \E o \in offsets, a \in arrays :
        Commit(DataBuffer_set_subdata(World(0), s, o, a), "set_subdata", 0)

\* arrays whose cast to the dtype of s numpy defines: scalar to scalar, or
\* already of that dtype
Castable(s, a) ==
    LET d == IF s = "buf" THEN buf.dtype ELSE view.dtype
    IN  a.dtype = d \/ (a.dtype.fields = <<>> /\ d.fields = <<>>)

call_setitem(s, keys, arrays) ==
    \E k \in keys, a \in {x \in arrays : Castable(s, x)} :
        Commit(DataBuffer_setitem(World(0), s, k, a), "__setitem__", 0)

call_activate(s) ==
    \E h \in FreshNames \cup {0} :
        /\ (h = 0) = (buf.handle # 0)
        /\ Commit(GLObject_activate(World(h), s), "activate", 0)

call_deactivate(s) == Commit(GLObject_deactivate(World(0), s), "deactivate", 0)

call_delete(s) == Commit(GLObject_delete(World(0), s), "delete", 0)

(***************************************************************************)
(* The calls on a Buffer through its byte-level interface, and the         *)
(* life-cycle calls on any buffer.                                         *)
(***************************************************************************)
SetNbytes == IsByteBuffer /\ call_set_nbytes("buf", 0..MaxCount)

ByteSetData == IsByteBuffer /\ call_Buffer_set_data("buf", ByteArrays \cup {NotArray})

ByteSetSubdata ==
    /\ IsByteBuffer
    /\ Len(buf.pending) < MaxPending
    /\ call_Buffer_set_subdata("buf", Offsets, ByteArrays)

Activate == buf.cls \in BufferClasses /\ call_activate("buf")

Deactivate == buf.cls \in BufferClasses /\ call_deactivate("buf")

Delete == buf.cls \in BufferClasses /\ call_delete("buf")

(***************************************************************************)
(* SpecData: a VertexBuffer or ElementBuffer driven through its typed      *)
(* interface.                                                              *)
(***************************************************************************)
SetCount == IsDataBuffer /\ ~HasView /\ call_set_count("buf", 0..MaxCount)

SetData == IsDataBuffer /\ ~HasView /\ call_set_data("buf", ArgArrays \cup {NotArray})

SetSubdata ==
    /\ IsDataBuffer
    /\ Len(buf.pending) < MaxPending
    /\ call_set_subdata("buf", Offsets, ArgArrays)

SetItem ==
    /\ IsDataBuffer
    /\ Len(buf.pending) < MaxPending
    /\ call_setitem("buf", Keys, ArgArrays)

InitData == InitWith(DataCtors)

NextData ==
    \/ SetCount
    \/ SetData
    \/ SetSubdata
    \/ SetItem
    \/ Activate
    \/ Deactivate
    \/ Delete

SpecData == InitData /\ [][NextData]_vars

(***************************************************************************)
(* Spec: one buffer or one texture, driven through every setter.           *)
(***************************************************************************)
IsTexture == tex.cls = "Texture"

\* the argument lists: the ones the setter accepts and one per check it makes
FilterArgs ==
    {<<"str:nearest", "None">>, <<"None", "GL_LINEAR_MIPMAP_LINEAR">>,
     <<"str:gl_linear", "GL_LINEAR">>, <<"GL_REPEAT", "None">>,
     <<"None", "GL_REPEAT">>, <<"None", "str:bogus">>}

WrappingArgs ==
    {<<"GL_MIRRORED_REPEAT", "None", "None">>, <<"None", "str:repeat", "GL_CLAMP_TO_EDGE">>,
     <<"GL_LINEAR", "None", "None">>, <<"None", "None", "str:bogus">>}

TexArg(offset, data, level, format, clim) ==
    [offset |-> offset, data |-> data, level |-> level, format |-> format, clim |-> clim]

TexDataArgs ==
    {TexArg(<<0, 0>>, Arr(U8, <<1, 1>>), 0, "None", None),
     TexArg(<<0, MaxCount>>, Arr(U8, <<1, MaxCount, 3>>), 1, "GL_RGB", <<0, 1>>),
     TexArg(<<0, 0>>, NotArray, 0, "None", None),
     TexArg(<<0, 0>>, Arr(U8, <<MaxCount>>), 0, "None", None),
     TexArg(<<0>>, Arr(U8, <<1, 1>>), 0, "None", None),
     TexArg(<<0, 0>>, Arr(U8, <<1, 1>>), -1, "None", None),
     TexArg(<<0, 0>>, Arr(U8, <<1, 1>>), 0, "GL_REPEAT", None),
     TexArg(<<0, 0>>, Arr(U8, <<1, 1>>), 0, "None", <<0>>)}

StorageArgs ==
    {TexArg(None, ShapeTuple(s), 0, "None", None) :
        s \in {<<1, 1>>, <<1, 1, 3>>, <<1, MaxCount>>, <<0, 1>>, <<MaxCount>>}}
    \cup {TexArg(None, ShapeTuple(<<1, 1>>), 1, "GL_RGB", None),
          TexArg(None, ShapeTuple(<<1, 1>>), -1, "None", None),
          TexArg(None, ShapeTuple(<<1, 1>>), 0, "GL_REPEAT", None)}

call_set_filter(args) ==
    \E a \in args : Commit(Texture_set_filter(World(0), a[1], a[2]), "tex.set_filter", 0)

SetFilter == IsTexture /\ call_set_filter(FilterArgs)

call_set_wrapping(args) ==
    \E a \in args :
        Commit(Texture_set_wrapping(World(0), a[1], a[2], a[3]), "tex.set_wrapping", 0)

SetWrapping == IsTexture /\ call_set_wrapping(WrappingArgs)

call_tex_set_data(args) ==
    \E a \in args :
        Commit(Texture_set_data(World(0), a.data, a.level, a.format, a.clim),
               "tex.set_data", 0)

TexSetData == IsTexture /\ call_tex_set_data(TexDataArgs)

call_tex_set_subdata(args) ==
    \E a \in args :
        Commit(Texture_set_subdata(World(0), a.offset, a.data, a.level, a.format, a.clim),
               "tex.set_subdata", 0)

TexSetSubdata ==
    /\ IsTexture
    /\ Len(tex.pending_subdata) < MaxPending
    /\ call_tex_set_subdata(TexDataArgs)

call_set_storage(args) ==
    \E a \in args :
        Commit(Texture_set_storage(World(0), a.data.shape, a.level, a.format),
               "tex.set_storage", 0)

TexSetStorage == IsTexture /\ call_set_storage(StorageArgs)

Init == InitWith(ByteCtors \cup DataCtors \cup TexCtors)

Next ==
    \/ SetNbytes
    \/ ByteSetData
    \/ ByteSetSubdata
    \/ SetCount
    \/ SetData
    \/ SetSubdata
    \/ SetItem
    \/ Activate
    \/ Deactivate
    \/ Delete
    \/ SetFilter
    \/ SetWrapping
    \/ TexSetData
    \/ TexSetSubdata
    \/ TexSetStorage

Spec == Init /\ [][Next]_vars

(***************************************************************************)
(* SpecCtor: a typed buffer constructed from each element type; last.arg   *)
(* keeps what the constructor was called with until the first call.        *)
(***************************************************************************)
ScalarNames ==
    {"bool", "uint8", "uint16", "uint32", "int8", "int16", "int32",
     "float16", "float32", "float64"}

CtorDTypes ==
    {Plain(n) : n \in ScalarNames}
    \cup {Struct(<<Field("a", n, 2), Field("b", "uint8", 0)>>) :
             n \in {"uint8", "int32", "float32", "float64"}}
    \cup {Struct(<<Field("x", "float32", 3)>>)}

CtorArgs ==
    {[cls |-> c, target |-> "", data |-> d] :
        c \in {"VertexBuffer", "ElementBuffer"},
        d \in {Desc(t) : t \in CtorDTypes} \cup {Arr(t, <<MaxCount>>) : t \in CtorDTypes}}

InitCtor ==
    \E c \in CtorArgs :
        /\ buf = IF Failed(Construct(c)) THEN NoBuffer ELSE Construct(c).buf
        /\ view = NoBuffer
        /\ tex = NoBuffer
        /\ gl = [names |-> {}, textures |-> {}]
        /\ gl_calls = <<>>
        /\ last = [op |-> "__init__", res |-> Result(Construct(c)), ret |-> 0, arg |-> c]

NextCtor ==
    \/ SetCount
    \/ Activate
    \/ Deactivate
    \/ Delete

SpecCtor == InitCtor /\ [][NextCtor]_vars

(***************************************************************************)
(* SpecClient: a client-only buffer, its life cycle, its private methods   *)
(* called directly, its indexing and the set_count it inherits.            *)
(***************************************************************************)
IsClient == buf.cls \in ClientClasses

ClientCtors ==
    {[cls |-> "ClientVertexBuffer", target |-> "", data |-> d] :
        d \in {Arr(U8, <<MaxCount>>), Arr(S2, <<1>>), Arr(U16, <<1, 2>>), Desc(U8), NotArray}}
    \cup {[cls |-> "ClientElementBuffer", target |-> "", data |-> d] :
        d \in {Arr(U8, <<MaxCount>>), Arr(U16, <<1>>), Arr(S2, <<1>>), Desc(U16)}}

ClientCreate ==
    /\ IsClient
    /\ \E h \in FreshNames : Commit(obj_create(World(h), "buf"), "_create", 0)

ClientUpdate == IsClient /\ Commit(obj_update(World(0), "buf"), "_update", 0)

ClientActivate == IsClient /\ call_activate("buf")

ClientDeactivate == IsClient /\ call_deactivate("buf")

ClientDelete == IsClient /\ call_delete("buf")

ClientGetItem ==
    /\ IsClient
    /\ \E k \in FieldKeys : Commit(ClientBuffer_getitem(World(0), k), "__getitem__", 0)

ClientSetItem ==
    /\ IsClient
    /\ \E k \in Keys, a \in ArgArrays :
           Commit(ClientBuffer_setitem(World(0), k, a), "__setitem__", 0)

ClientSetCount == IsClient /\ call_set_count("buf", 0..MaxCount)

InitClient == InitWith(ClientCtors)

NextClient ==
    \/ ClientCreate
    \/ ClientUpdate
    \/ ClientActivate
    \/ ClientDeactivate
    \/ ClientDelete
    \/ ClientGetItem
    \/ ClientSetItem
    \/ ClientSetCount

SpecClient == InitClient /\ [][NextClient]_vars

(***************************************************************************)
(* SpecTex: one texture, its setters and its life cycle on a device whose  *)
(* extensions and answers vary from call to call.                          *)
(***************************************************************************)
TexWorld(h1, h2, ext, lost) ==
    [buf |-> buf, view |-> view, tex |-> tex, gl |-> gl, calls |-> <<>>, err |-> "",
     fresh |-> h1, fresh2 |-> h2, ext |-> ext, bound |-> 0, lost |-> lost]

Exts == {{}, {"GL_texture_3D", "texture_float", "texture_half_float"}}

\* the names glGenTextures may hand out once the texture of name h is deleted
FreeWithout(h) == {n \in 1..MaxName : n \notin gl.names \ {h}}

FlushFilterArgs == {<<"str:nearest", "None">>, <<"None", "str:bogus">>}

FlushDataArgs ==
    {TexArg(None, Arr(U8, <<1, 1>>), 0, "None", None),
     TexArg(None, Arr(U8, <<1, MaxCount, 3>>), 0, "None", None),
     TexArg(None, NotArray, 0, "None", None)}

FlushSubdataArgs ==
    {TexArg(<<0, 0>>, Arr(U8, <<1, 1>>), 0, "None", None),
     TexArg(<<0, MaxCount>>, Arr(U8, <<1, 1>>), 0, "None", None),
     TexArg(<<0, 0, 0>>, Arr(U8, <<1, 1, 1>>), 0, "None", None)}

FlushStorageArgs ==
    {TexArg(None, ShapeTuple(s), 0, "None", None) :
        s \in {<<1, 1>>, <<1, MaxCount>>, <<1, 1, 1>>}}

FlushSetFilter == IsTexture /\ call_set_filter(FlushFilterArgs)

FlushSetData == IsTexture /\ call_tex_set_data(FlushDataArgs)

FlushSetSubdata ==
    /\ IsTexture
    /\ Len(tex.pending_subdata) < MaxPending
    /\ call_tex_set_subdata(FlushSubdataArgs)

FlushSetStorage == IsTexture /\ call_set_storage(FlushStorageArgs)

\* activate(): the first name glGenTextures hands out is free when it is
\* asked, and so is the second, asked once the first texture is deleted
TexActivate ==
    /\ IsTexture
    /\ \E ext \in Exts, lost \in BOOLEAN :
           \/ /\ tex.handle = 0
              /\ \E h1 \in FreeWithout(0) : \E h2 \in FreeWithout(0) \cup {h1} :
                     Commit(GLObject_activate(TexWorld(h1, h2, ext, lost), "tex"),
                            "activate", 0)
           \/ /\ tex.handle # 0
              /\ \E h1 \in FreeWithout(tex.handle) :
                     Commit(GLObject_activate(TexWorld(h1, 0, ext, lost), "tex"),
                            "activate", 0)

TexDeactivate ==
    /\ IsTexture
    /\ Commit(GLObject_deactivate(TexWorld(0, 0, {}, FALSE), "tex"), "deactivate", 0)

TexDelete ==
    /\ IsTexture
    /\ Commit(GLObject_delete(TexWorld(0, 0, {}, FALSE), "tex"), "delete", 0)

InitTex == InitWith(TexCtors)

NextTex ==
    \/ FlushSetFilter
    \/ FlushSetData
    \/ FlushSetSubdata
    \/ FlushSetStorage
    \/ TexActivate
    \/ TexDeactivate
    \/ TexDelete

SpecTex == InitTex /\ [][NextTex]_vars

(***************************************************************************)
(* SpecLife: a byte buffer or a texture through its life cycle: written,   *)
(* activated, deleted, deleted again, activated again.                     *)
(***************************************************************************)
InitLife == InitWith(ByteCtors \cup TexCtors)

NextLife ==
    \/ ByteSetData
    \/ ByteSetSubdata
    \/ Activate
    \/ Deactivate
    \/ Delete
    \/ FlushSetData
    \/ FlushSetSubdata
    \/ TexActivate
    \/ TexDeactivate
    \/ TexDelete

SpecLife == InitLife /\ [][NextLife]_vars

(***************************************************************************)

(* SpecPure: the two functions of texture.py, each applied to an input     *)
(* drawn when the behaviour starts; last.arg is the input.                 *)
(***************************************************************************)
\* shapes of rank 1 to 5 with each trailing size from 1 to 5
FormatShapes ==
    {[i \in 1..r |-> IF i = r THEN t ELSE IF i = 1 THEN l ELSE 1] :
        r \in 1..5, t \in 1..5, l \in {1, MaxCount}}

FormatInputs ==
    {[f |-> "get_format", shape |-> s, target |-> t] :
        s \in FormatShapes, t \in {"GL_TEXTURE_2D", "GL_TEXTURE_3D", "GL_TEXTURE_CUBE_MAP"}}

\* the elements fed to convert_data, by dtype
ConvertValues(name) ==
    CASE name = "bool" -> {<<0, 1>>, <<1, 1>>}
      [] name = "uint8" -> {<<n, 1>> : n \in {0, 1, 128, 255}}
      [] name = "int8" -> {<<n, 1>> : n \in {-128, -127, -1, 0, 126, 127}}
      [] name = "int16" -> {<<n, 1>> : n \in {-32768, 0, 32767}}
      [] name = "uint16" -> {<<n, 1>> : n \in {0, 1, 32767, 32768, 65535}}
      [] name \in {"float32", "float64"} ->
             {<<-1, 4>>, <<0, 1>>, <<1, 2>>, <<1, 1>>, <<5, 4>>}
      [] OTHER -> {<<0, 1>>}

ConvertClims == {None, <<0, 1>>, <<0, 255>>, <<-128, 127>>, <<1, 1>>}

ConvertInputs ==
    {[f |-> "convert_data", name |-> n, value |-> v, clim |-> c, ext |-> e] :
        n \in {"bool", "uint8", "int8", "int16", "uint16", "float32", "float64",
               "complex64"},
        v \in UNION {ConvertValues(m) : m \in {"bool", "uint8", "int8", "int16", "uint16",
                                               "float32", "complex64"}},
        c \in ConvertClims, e \in Exts}

InitPure ==
    \E a \in FormatInputs \cup {c \in ConvertInputs : c.value \in ConvertValues(c.name)} :
        /\ buf = NoBuffer
        /\ view = NoBuffer
        /\ tex = NoBuffer
        /\ gl = [names |-> {}, textures |-> {}]
        /\ gl_calls = <<>>
        /\ last = [op |-> "input", res |-> "ok", ret |-> 0, arg |-> a]

GetFormat ==
    /\ last.op = "input"
    /\ last.arg.f = "get_format"
    /\ last' = [op |-> "get_format",
                res |-> IF get_format(last.arg.shape, last.arg.target) = ""
                        THEN "TextureError: cannot determine format" ELSE "ok",
                ret |-> get_format(last.arg.shape, last.arg.target),
                arg |-> last.arg]
    /\ UNCHANGED <<buf, view, tex, gl, gl_calls>>

\* the record convert_element hands back, as the call's outcome
Converted(r) ==
    last' = [op |-> "convert_data", res |-> IF r.err = "" THEN "ok" ELSE r.err,
             ret |-> r, arg |-> last.arg]

ConvertData ==
    /\ last.op = "input"
    /\ last.arg.f = "convert_data"
    /\ \E cast \in {"wrap", "saturate"} :
           Converted(convert_element([ext |-> last.arg.ext], last.arg.name, last.arg.value,
                                     last.arg.clim, cast))
    /\ UNCHANGED <<buf, view, tex, gl, gl_calls>>

NextPure ==
    \/ GetFormat
    \/ ConvertData

SpecPure == InitPure /\ [][NextPure]_vars

(***************************************************************************)
(* SpecView: a structured VertexBuffer and a view of one of its fields.    *)
(***************************************************************************)
GetItem ==
    /\ IsDataBuffer
    /\ ~HasView
    /\ \E k \in FieldKeys : Commit(DataBuffer_getitem(World(0), k), "__getitem__", 0)

\* the calls made on the base while a view of it exists
BaseSetCount == HasView /\ call_set_count("buf", 0..MaxCount)

BaseSetData == HasView /\ call_set_data("buf", StructArrays)

ViewHandle ==
    /\ HasView
    /\ LET w == VertexBufferView_handle(World(0)) IN Commit(w, "view.handle", w.view.handle)

ViewStride ==
    /\ HasView
    /\ LET w == VertexBufferView_stride(World(0)) IN Commit(w, "view.stride", w.view.stride)

ViewCount ==
    /\ HasView
    /\ LET w == VertexBufferView_count(World(0)) IN Commit(w, "view.count", w.view.count)

ViewSetCount ==
    /\ HasView
    /\ \E n \in 0..MaxCount : Commit(set_count(World(0), "view", n), "view.set_count", 0)

ViewSetData ==
    /\ HasView
    /\ \E a \in ArgArrays :
           Commit(DataBuffer_set_data(World(0), "view", a), "view.set_data", 0)

ViewSetSubdata ==
    /\ HasView
    /\ \E o \in Offsets, a \in ArgArrays :
           Commit(DataBuffer_set_subdata(World(0), "view", o, a), "view.set_subdata", 0)

ViewSetItem ==
    /\ HasView
    /\ \E k \in Keys, a \in {x \in ArgArrays : Castable("view", x)} :
           Commit(DataBuffer_setitem(World(0), "view", k, a), "view.__setitem__", 0)

\* activate() of the view; the name the device hands out is asked for when
\* the base has no handle
ViewActivate ==
    /\ HasView
    /\ \E h \in FreshNames \cup {0} :
           /\ (h = 0) = (buf.handle # 0)
           /\ Commit(GLObject_activate(World(h), "view"), "view.activate", 0)

InitView == InitWith(ViewCtors)

NextView ==
    \/ GetItem
    \/ BaseSetCount
    \/ BaseSetData
    \/ Activate
    \/ Deactivate
    \/ Delete
    \/ ViewActivate
    \/ ViewHandle
    \/ ViewStride
    \/ ViewCount
    \/ ViewSetCount
    \/ ViewSetData
    \/ ViewSetSubdata
    \/ ViewSetItem

SpecView == InitView /\ [][NextView]_vars

(***************************************************************************)
(* The properties.                                                         *)
(***************************************************************************)
SetterOps ==
    {"set_nbytes", "set_count", "set_data", "set_subdata", "__setitem__",
     "tex.set_filter", "tex.set_wrapping", "tex.set_data", "tex.set_subdata",
     "tex.set_storage"}

\* what the buffer's own _parse_array makes of the array a
ParsedArg(a) == parse_array(buf.cls, unwrap_array(a))

\* a differs from the buffer in element type, vector size or stride
Differs(a) ==
    \/ ParsedArg(a).err # ""
    \/ ParsedArg(a).dtype # buf.dtype
    \/ ParsedArg(a).vsize # buf.vsize
    \/ ParsedArg(a).stride # buf.stride

\* the call that returned w raised and left the buffer as it was
Rejected(w) == Failed(w) /\ w.buf = buf

\* C1: a typed buffer's nbytes equals count * stride in every state reached
\* from its construction by set_count, set_data, set_subdata and indexed
\* writes.
C1_nbytes_is_count_times_stride ==
    IsDataBuffer => buf.nbytes = buf.count * buf.stride

\* C2: a step that changes the capacity (set_nbytes, set_count, set_data of
\* another byte size) leaves no write in the queue that was there before: the
\* queue is empty, or holds only the full write set_data itself enqueues.
C2_resize_discards_queued_writes ==
    [][buf'.nbytes # buf.nbytes =>
          \/ buf'.pending = <<>>
          \/ /\ last'.op = "set_data"
             /\ Len(buf'.pending) = 1
             /\ buf'.pending[1].offset = 0
             /\ buf'.pending[1].nbytes = buf'.nbytes]_vars

\* a write was queued after the last flush, then a resize emptied the queue
C2_witness ==
    /\ last.op = "set_nbytes"
    /\ buf.handle # 0
    /\ buf.need_update
    /\ buf.need_resize
    /\ buf.pending = <<>>

\* C3: the flush binds, reallocates to the current capacity when a resize is
\* pending and clears the flag, then issues one glBufferSubData per queued
\* write, in queue order, with the write's offset, size and data; the queue
\* is empty afterwards.
C3_flush_reallocates_then_uploads_in_order ==
    [][(last'.op = "activate" /\ buf.need_update) =>
          LET k == IF buf.handle = 0 THEN 1 ELSE 0
              r == IF buf.need_resize THEN 1 ELSE 0
              n == Len(buf.pending)
          IN  /\ Len(gl_calls') = k + r + n + 2
              /\ gl_calls'[k + 1].f = "glBindBuffer"
              /\ r = 1 => /\ gl_calls'[k + 2].f = "glBufferData"
                          /\ gl_calls'[k + 2].size = buf.nbytes
              /\ \A i \in 1..n :
                     gl_calls'[k + 1 + r + i] =
                         [NoCall EXCEPT !.f = "glBufferSubData", !.target = buf.target,
                                        !.offset = buf.pending[i].offset,
                                        !.size = buf.pending[i].nbytes,
                                        !.data = buf.pending[i].data]
              /\ buf'.pending = <<>>
              /\ ~buf'.need_resize]_vars

\* a flush that reallocated and then uploaded two writes at different offsets
C3_witness ==
    /\ last.op = "activate"
    /\ \E i \in 1..Len(gl_calls) :
           /\ i + 2 <= Len(gl_calls)
           /\ gl_calls[i].f = "glBufferData"
           /\ gl_calls[i + 1].f = "glBufferSubData"
           /\ gl_calls[i + 2].f = "glBufferSubData"
           /\ gl_calls[i + 1].offset # gl_calls[i + 2].offset

\* C4: when activate() of a buffer has returned, the buffer has a handle, its
\* queue is empty and its resize flag is clear.
C4_activate_flushes_everything ==
    (last.op = "activate" /\ last.res = "ok") =>
        /\ buf.handle # 0
        /\ buf.pending = <<>>
        /\ ~buf.need_resize

\* C5: a setter of a buffer or of a texture, and a constructor, which only
\* calls setters, issues no GL call.
C5_setters_issue_no_gpu_call ==
    last.op \in SetterOps \cup {"__init__"} => gl_calls = <<>>

\* a setter has run on a buffer that is live on the GPU
C5_witness ==
    /\ last.op = "set_data"
    /\ last.res = "ok"
    /\ buf.handle # 0
    /\ buf.valid

\* C6: on a typed buffer, set_subdata(offset, data) with matching data fails
\* exactly when offset < 0 or offset + data.count > count, and otherwise
\* appends one write at byte offset offset * stride to the queue.
C6_set_subdata_bounds ==
    IsDataBuffer =>
        \A o \in Offsets, a \in ArgArrays :
            ~Differs(a) =>
                /\ Failed(DataBuffer_set_subdata(World(0), "buf", o, a))
                       <=> (o < 0 \/ o + ParsedArg(a).count > buf.count)
                /\ ~Failed(DataBuffer_set_subdata(World(0), "buf", o, a)) =>
                       DataBuffer_set_subdata(World(0), "buf", o, a).buf.pending =
                           Append(buf.pending,
                                  PendingItem(unwrap_array(a), array_nbytes(a), o * buf.stride))

\* C7: a typed buffer never changes its dtype, vsize or stride; a set_data or
\* set_subdata that returned has queued an array that agrees with the buffer
\* in all three, so an array that differs in one is rejected whatever its
\* byte size; a set_data or set_subdata that raised has left count, nbytes,
\* both flags and the queue unchanged.
C7_mismatch_rejected_state_unchanged ==
    [][IsDataBuffer =>
          /\ buf'.dtype = buf.dtype
          /\ buf'.vsize = buf.vsize
          /\ buf'.stride = buf.stride
          /\ (last'.op \in {"set_data", "set_subdata"} /\ last'.res = "ok") =>
                 /\ buf'.pending # <<>>
                 /\ ~Differs(buf'.pending[Len(buf'.pending)].data)
          /\ (last'.op \in {"set_data", "set_subdata"} /\ last'.res # "ok") =>
                 /\ buf'.count = buf.count
                 /\ buf'.nbytes = buf.nbytes
                 /\ buf'.need_resize = buf.need_resize
                 /\ buf'.need_update = buf.need_update
                 /\ buf'.pending = buf.pending]_vars

\* set_data was rejected for an array that has exactly the buffer's byte size
C7_witness ==
    /\ last.op = "set_data"
    /\ buf.nbytes > 0
    /\ \E a \in ArgArrays :
           /\ array_nbytes(a) = buf.nbytes
           /\ Differs(a)
           /\ last.res = "ValueError: vsize mismatch"
           /\ Result(DataBuffer_set_data(World(0), "buf", a)) = last.res

\* C8: every queued write ends within the current capacity, and a byte-level
\* set_subdata on a buffer of capacity 0 raises and queues nothing.
C8_pending_writes_within_capacity ==
    buf.cls \in BufferClasses =>
        /\ \A i \in 1..Len(buf.pending) :
               buf.pending[i].offset + buf.pending[i].nbytes <= buf.nbytes
        /\ buf.nbytes = 0 =>
               \A o \in Offsets, a \in ByteArrays :
                   Rejected(Buffer_set_subdata(World(0), "buf", o, a))

\* two writes are queued and the second one ends exactly at the capacity
C8_witness ==
    /\ last.op = "set_subdata"
    /\ last.res = "ok"
    /\ Len(buf.pending) = 2
    /\ buf.pending[2].offset > 0
    /\ buf.pending[2].offset + buf.pending[2].nbytes = buf.nbytes

\* C9: a read of the view's stride, count or handle returns the parent's
\* value at the time of the read.
C9_view_reads_through ==
    /\ last.op = "view.stride" => last.ret = buf.stride
    /\ last.op = "view.count" => last.ret = buf.count
    /\ last.op = "view.handle" => last.ret = buf.handle

\* the count was read after the parent, resized since the view was made, had
\* been created on the GPU
C9_witness ==
    /\ last.op = "view.count"
    /\ last.ret = 1
    /\ buf.handle # 0

\* C10: set_count, set_data, set_subdata and an indexed write on a view raise,
\* and leave count, nbytes, the resize flag and the queue of the view and of
\* its parent unchanged.
C10_view_setters_fail ==
    [][last'.op \in {"view.set_count", "view.set_data", "view.set_subdata",
                     "view.__setitem__"} =>
          /\ last'.res # "ok"
          /\ view'.count = view.count
          /\ view'.nbytes = view.nbytes
          /\ view'.need_resize = view.need_resize
          /\ view'.pending = view.pending
          /\ buf'.count = buf.count
          /\ buf'.nbytes = buf.nbytes
          /\ buf'.need_resize = buf.need_resize
          /\ buf'.pending = buf.pending]_vars

\* an indexed write of data of the view's own type got as far as set_subdata
C10_witness ==
    /\ last.op = "view.__setitem__"
    /\ last.res = "ValueError: stride mismatch"
    /\ buf.count > 0

(***************************************************************************)
(* Properties of the texture, under SpecTex.                               *)
(***************************************************************************)
\* the queued write item lies within shape on each of the texture's axes
WithinShape(item, shape) ==
    \A i \in 1..Texture_ndim(tex.target) :
        /\ item.offset[i] >= 0
        /\ item.offset[i] + item.data.shape[i] <= shape[i]

\* C11: a set_subdata whose offset plus extent exceeds the logical shape on
\* some axis is rejected at the call: a set_subdata that returned normally
\* has queued a write that lies within the logical shape.
C11_out_of_range_subdata_rejected ==
    (IsTexture /\ last.op = "tex.set_subdata" /\ last.res = "ok")
        => WithinShape(tex.pending_subdata[Len(tex.pending_subdata)],
                       tex.texture_shape[1])

\* C12: set_subdata on a texture without a shape raises and leaves the
\* sub-region queue and the dirty flag as they were; a shape, once there,
\* stays.
C12_subdata_needs_shape_and_shape_stays ==
    [][/\ (IsTexture /\ tex.texture_shape = None /\ last'.op = "tex.set_subdata")
            => /\ last'.res = "RuntimeError: no data or storage yet"
               /\ tex'.pending_subdata = tex.pending_subdata
               /\ tex'.need_update = tex.need_update
       /\ (IsTexture /\ tex.texture_shape # None) => tex'.texture_shape # None]_vars

\* set_subdata was called on a texture that never had data or storage
C12_witness ==
    /\ IsTexture
    /\ tex.texture_shape = None
    /\ last.op = "tex.set_subdata"
    /\ last.res = "RuntimeError: no data or storage yet"
    /\ tex.pending_subdata = <<>>

\* the upload calls among calls, in order
UploadCalls(calls) == SelectSeq(calls, LAMBDA c : c.f \in {"glTexImage", "glTexSubImage"})

\* the step is an activate of the texture that returned normally
FlushReturned == IsTexture /\ last'.op = "activate" /\ last'.res = "ok"

\* u, the uploads of a flush, begin with the one upload of the full write p
\* made on a texture whose valid flag was valid: a glTexImage, or for an array
\* on a valid texture a glTexSubImage at offset zero; the rest are sub-region
\* uploads
OneFullUpload(u, p, valid, ndim) ==
    /\ Len(u) >= 1
    /\ u[1].size = Texture_get_size(p.data.shape, ndim)
    /\ \/ u[1].f = "glTexImage"
       \/ /\ u[1].f = "glTexSubImage"
          /\ valid
          /\ p.data.t = "ndarray"
          /\ u[1].offset = [i \in 1..ndim |-> 0]
    /\ \A i \in 2..Len(u) : u[i].f = "glTexSubImage"

C14_flush_order_data_subdata_params ==
    (IsTexture /\ last.op = "activate")
        => \A i, j \in 1..Len(gl_calls) :
               i < j => /\ ~(/\ gl_calls[i].f = "glTexParameter"
                             /\ gl_calls[j].f = "glTexSubImage")
                        /\ ~(/\ gl_calls[i].f = "glTexSubImage"
                             /\ gl_calls[j].f = "glTexImage")

\* in calls, the upload at k was preceded by the deletion of a texture
DeletedBefore(calls, k) == \E d \in 1..(k - 1) : calls[d].f = "glDeleteTextures"

\* in calls, every deletion before the upload at k is followed, still
\* before k, by the creation and the bind of the texture the upload goes to
RecreatedBefore(calls, k) ==
    \A d \in 1..(k - 1) :
        calls[d].f = "glDeleteTextures"
            => \E g \in (d + 1)..(k - 1) :
                   /\ calls[g].f = "glGenTextures"
                   /\ calls[g].handle = calls[k].handle
                   /\ \E b \in (g + 1)..(k - 1) :
                          /\ calls[b].f = "glBindTexture"
                          /\ calls[b].handle = calls[k].handle

\* C15: a flush that makes a full upload or storage allocation deletes and
\* recreates the handle first exactly when the valid flag was set, so never
\* on first use, and the upload goes to the handle created last, a live one.
C15_full_upload_recreates_iff_valid ==
    [][(IsTexture /\ last'.op = "activate")
           => \A k \in 1..Len(gl_calls') :
                  gl_calls'[k].f = "glTexImage"
                      => /\ tex.valid <=> DeletedBefore(gl_calls', k)
                         /\ RecreatedBefore(gl_calls', k)
                         /\ gl_calls'[k].handle \in gl'.names]_vars

\* a flush of a valid texture has deleted it, created it again and
\* allocated the storage
C15_witness ==
    /\ IsTexture
    /\ last.op = "activate"
    /\ last.res = "ok"
    /\ \E d, g, k \in 1..Len(gl_calls) :
           /\ d < g
           /\ g < k
           /\ gl_calls[d].f = "glDeleteTextures"
           /\ gl_calls[g].f = "glGenTextures"
           /\ gl_calls[k].f = "glTexImage"

\* the device holds, for the texture of name handle, an image of this size
Allocated(handle, size) ==
    \E t \in gl.textures : t.handle = handle /\ t.size = size

\* C16: a pending full set_data is uploaded through the sub-region call only
\* when its shape is the shape of the storage the device holds for the
\* texture; a set_data of another shape goes through the full upload.
C16_fold_only_onto_storage_of_same_shape ==
    [][(/\ IsTexture
        /\ last'.op = "activate"
        /\ tex.pending_data # None
        /\ UploadCalls(gl_calls') # <<>>
        /\ UploadCalls(gl_calls')[1].f = "glTexSubImage")
           => Allocated(tex.handle,
                        Texture_get_size(tex.pending_data[1].data.shape,
                                         Texture_ndim(tex.target)))]_vars

\* in calls, every parameter recorded in params is set by a call after k
AppliedAfter(calls, k, params) ==
    \A p \in 1..Len(ParamKeys) :
        params[ParamKeys[p]] # "unset"
            => \E j \in (k + 1)..Len(calls) :
                   /\ calls[j].f = "glTexParameter"
                   /\ calls[j].handle = calls[k].handle
                   /\ calls[j].param = ParamKeys[p]
                   /\ calls[j].value = params[ParamKeys[p]]

\* C17: a flush that makes a full upload or storage allocation issues,
\* after the upload, a parameter call for every recorded filter and wrap
\* parameter, pending or not, and leaves no parameter pending.
C17_full_upload_reapplies_all_params ==
    [][(IsTexture /\ last'.op = "activate")
           => \A k \in 1..Len(gl_calls') :
                  gl_calls'[k].f = "glTexImage"
                      => /\ AppliedAfter(gl_calls', k, tex.texture_params)
                         /\ tex'.pending_params = NoParams
                         /\ tex'.texture_params = tex.texture_params]_vars

\* a texture was created again and its parameters, the changed magnification
\* filter among them, were set after the allocation
C17_witness ==
    /\ IsTexture
    /\ last.op = "activate"
    /\ tex.texture_params.GL_TEXTURE_MAG_FILTER = "GL_NEAREST"
    /\ \E d, k, j \in 1..Len(gl_calls) :
           /\ d < k
           /\ k < j
           /\ gl_calls[d].f = "glDeleteTextures"
           /\ gl_calls[k].f = "glTexImage"
           /\ gl_calls[j].f = "glTexParameter"
           /\ gl_calls[j].param = "GL_TEXTURE_MAG_FILTER"
           /\ gl_calls[j].value = "GL_NEAREST"

AllExts == {"GL_texture_3D", "texture_float", "texture_half_float"}

\* the world of the next activate, made on what the call that returned w
\* left, with every extension there and an answering device; the name the
\* device hands out is the one a deletion of the texture frees
Retry(w) ==
    [w EXCEPT !.calls = <<>>, !.err = "", !.ext = AllExts, !.lost = FALSE,
              !.bound = 0, !.fresh = w.tex.handle, !.fresh2 = 0]

\* activate returned w: it raised the 3D error, left what is pending as it
\* is in the texture now, and called the device at most to create the handle
FailedUntouched(w) ==
    /\ w.err = "TextureError: 3D Texture not available"
    /\ w.tex.pending_data = tex.pending_data
    /\ w.tex.pending_subdata = tex.pending_subdata
    /\ w.tex.pending_params = tex.pending_params
    /\ w.tex.need_update
    /\ Len(w.calls) = (IF tex.handle = 0 THEN 1 ELSE 0)
    /\ \A i \in 1..Len(w.calls) : w.calls[i].f = "glGenTextures"

\* activate returned w normally: nothing is pending any more and one upload
\* was made for the full write and one for each queued sub-region write
Applied(w) ==
    ~Failed(w)
        => /\ w.tex.pending_data = None
           /\ w.tex.pending_subdata = <<>>
           /\ w.tex.pending_params = NoParams
           /\ Len(UploadCalls(w.calls)) =
                  Len(tex.pending_data) + Len(tex.pending_subdata)

\* C18: the update of a 3D texture on a context without 3D textures raises
\* the texture error before it calls the device and leaves the pending full
\* write, the sub-region queue and the pending parameters as they were; an
\* activate made later on a context that has 3D textures applies them.
C18_3d_unavailable_fails_before_gpu ==
    (IsTexture /\ tex.target = "GL_TEXTURE_3D" /\ tex.need_update)
        => \A lost \in BOOLEAN : \A h \in FreeWithout(tex.handle) :
               /\ FailedUntouched(GLObject_activate(TexWorld(h, h, {}, lost), "tex"))
               /\ Applied(GLObject_activate(
                      Retry(GLObject_activate(TexWorld(h, h, {}, lost), "tex")), "tex"))

\* a 3D texture with a full write and a sub-region write pending was
\* activated on a context without 3D textures
C18_witness ==
    /\ IsTexture
    /\ tex.target = "GL_TEXTURE_3D"
    /\ last.op = "activate"
    /\ last.res = "TextureError: 3D Texture not available"
    /\ tex.pending_data # None
    /\ tex.pending_subdata # <<>>

\* the number of calls of the function f among calls
CallCount(calls, f) == Cardinality({i \in 1..Len(calls) : calls[i].f = f})

\* activate returned w after the quiet return of _update: the handle is 0,
\* the full write was uploaded, the queue is as it is in the texture now and
\* none of it was uploaded, and the only parameter calls are the ones that
\* re-apply the recorded parameters after the upload
QuietReturn(w) ==
    /\ w.tex.handle = 0
    /\ w.tex.pending_data = None
    /\ w.tex.pending_subdata = tex.pending_subdata
    /\ CallCount(w.calls, "glTexImage") = 1
    /\ CallCount(w.calls, "glTexSubImage") = 0
    /\ CallCount(w.calls, "glTexParameter") =
           Cardinality({p \in 1..Len(ParamKeys) : tex.texture_params[ParamKeys[p]] # "unset"})

\* activate returned w on a device that denies every texture
DeniedOutcome(w) ==
    /\ Failed(w) \/ QuietReturn(w)
    /\ CallCount(w.calls, "glTexImage") > 0 => ~Failed(w)
    /\ tex.pending_data = None => Failed(w)

\* C19: when the device denies the handle right after the pending full
\* write was uploaded, update returns without raising, sets the handle to 0
\* and issues no sub-region upload and no further parameter call; when the
\* device denies the handle anywhere else, or anything else fails, update
\* raises.
C19_invalid_after_full_write_returns_quietly ==
    (IsTexture /\ tex.need_update)
        => \A ext \in Exts : \A h \in FreeWithout(tex.handle) :
               DeniedOutcome(GLObject_activate(TexWorld(h, h, ext, TRUE), "tex"))

\* an activate returned normally with the handle at 0 and the queue kept
C19_witness ==
    /\ IsTexture
    /\ last.op = "activate"
    /\ last.res = "ok"
    /\ tex.handle = 0
    /\ tex.pending_subdata # <<>>
    /\ CallCount(gl_calls, "glTexImage") = 1

(***************************************************************************)
(* The vertex buffer of the structured array of positions and colours,     *)
(* under SpecView.                                                         *)
(***************************************************************************)
\* C20: a vertex buffer built from an array of 100 elements of position
\* (three float32) and color (four float32) has vsize 7, stride 28 and
\* count 100, and its view of color has byte offset 12.
C20_position_color_layout ==
    (buf.cls = "VertexBuffer" /\ buf.dtype = PosColor /\ last.op \in {"__init__", "__getitem__"})
        => /\ buf.vsize = 7
           /\ buf.stride = 28
           /\ buf.count = 100
           /\ (last.op = "__getitem__" /\ last.res = "ok") => view.offset = 12

(***************************************************************************)
(* Properties of the constructors, under SpecCtor.                         *)
(***************************************************************************)
UnsignedNames == {"uint8", "uint16", "uint32"}

SignedNames == {"int8", "int16", "int32"}

FloatNames == {"float16", "float32"}

\* the element types of dtype: its fields' when it is structured, else its own
ElementNames(dtype) ==
    IF dtype.fields # <<>> THEN {dtype.fields[i].base : i \in 1..Len(dtype.fields)}
    ELSE {dtype.name}

\* C21: construction succeeds exactly for the element types on the allow-list
\* of the buffer kind: an index buffer takes uint8, uint16 and uint32 and no
\* structured type; a vertex buffer takes the signed and unsigned integer
\* types and the floating types other than float64, for every field.
C21_construction_follows_allow_list ==
    last.op = "__init__"
        => (last.res = "ok") <=>
               IF last.arg.cls = "ElementBuffer"
               THEN /\ last.arg.data.dtype.fields = <<>>
                    /\ last.arg.data.dtype.name \in UnsignedNames
               ELSE ElementNames(last.arg.data.dtype)
                        \subseteq UnsignedNames \cup SignedNames \cup FloatNames

(***************************************************************************)
(* Properties of the client-only buffers, under SpecClient.                *)
(***************************************************************************)
\* C22: whatever is called on a client-only buffer, it has no handle, no
\* call has reached the GPU and the device holds no object.
C22_client_buffer_never_on_gpu ==
    IsClient => /\ buf.handle = 0
                /\ gl_calls = <<>>
                /\ gl.names = {}
                /\ view = NoBuffer

\* a client buffer with data queued by its constructor was activated
C22_witness ==
    /\ IsClient
    /\ last.op = "activate"
    /\ last.res = "ok"
    /\ buf.pending # <<>>
    /\ buf.valid

(***************************************************************************)
(* Properties of get_format and convert_data, under SpecPure.              *)
(***************************************************************************)
\* the format of a trailing axis of this size, "" when there is none
ChannelFormat(size) ==
    CASE size = 1 -> "GL_LUMINANCE"
      [] size = 2 -> "GL_LUMINANCE_ALPHA"
      [] size = 3 -> "GL_RGB"
      [] size = 4 -> "GL_RGBA"
      [] OTHER -> ""

\* what get_format is to give for a shape of this rank and trailing size on
\* a target of ndim dimensions (0: no texture target), "" for an error
ExpectedFormat(rank, trailing, ndim) ==
    IF ndim \notin {2, 3} THEN ""
    ELSE IF rank = ndim THEN "GL_LUMINANCE"
    ELSE IF rank = ndim + 1 THEN ChannelFormat(trailing)
    ELSE ""

\* C23: get_format depends only on the rank and the trailing size of the
\* shape relative to the target: rank 2 (3 for a 3D target) gives luminance,
\* one more axis of size 1, 2, 3, 4 gives luminance, luminance-alpha, RGB,
\* RGBA; any other rank or trailing size and any other target is an error.
C23_get_format_by_rank_and_channels ==
    last.op = "get_format"
        => /\ last.ret =
                  ExpectedFormat(Len(last.arg.shape),
                                 last.arg.shape[Len(last.arg.shape)],
                                 IF last.arg.target = "GL_TEXTURE_2D" THEN 2
                                 ELSE IF last.arg.target = "GL_TEXTURE_3D" THEN 3
                                 ELSE 0)
           /\ (last.res = "ok") <=> (last.ret # "")

\* get_format was asked for a shape with five channels on a 2D target
C23_witness ==
    /\ last.op = "get_format"
    /\ last.arg.target = "GL_TEXTURE_2D"
    /\ Len(last.arg.shape) = 3
    /\ last.arg.shape[3] = 5
    /\ last.res = "TextureError: cannot determine format"

\* convert_data was applied to an element of dtype name without limits on a
\* context without float textures
ConvertedPlain(name) ==
    /\ last.op = "convert_data"
    /\ last.arg.name = name
    /\ last.arg.clim = None
    /\ last.arg.ext = {}

\* C24: without float textures, int8 data without limits is converted with
\* the limits (-128, 127) to uint8 in 0..255: -128 gives 0, 127 gives 255 and
\* no value wraps around; uint8 data without limits comes back unchanged.
C24_int8_rescaled_into_uint8 ==
    /\ ConvertedPlain("int8")
           => /\ last.res = "ok"
              /\ last.ret.dtype = "uint8"
              /\ last.ret.clim = <<-128, 127>>
              /\ last.ret.value[2] = 1
              /\ last.ret.value[1] \in 0..255
              /\ last.arg.value[1] = -128 => last.ret.value[1] = 0
              /\ last.arg.value[1] = 127 => last.ret.value[1] = 255
              /\ last.arg.value[1] > -128 => last.ret.value[1] > 0
    /\ ConvertedPlain("uint8")
           => /\ last.res = "ok"
              /\ last.ret.dtype = "uint8"
              /\ last.ret.value = last.arg.value

C26_resize_implies_dirty ==
    /\ buf.need_resize => buf.need_update
    /\ (last.op \in {"set_nbytes", "set_count"} /\ last.res = "ok"
            /\ buf.need_resize)
           => buf.need_update

\* C27: when the byte-level set_data(array), the one of class Buffer, has
\* returned, the capacity is the byte size of the array, the queue holds
\* that one write (the array, its byte size, offset 0) whatever it held
\* before, the dirty flag is set, and the resize flag is newly set exactly
\* when the capacity changed.
C27_set_data_replaces_queue ==
    [][(last'.op = "set_data" /\ last'.res = "ok" /\ buf.cls = "Buffer")
           => /\ Len(buf'.pending) = 1
              /\ buf'.pending[1].offset = 0
              /\ buf'.pending[1].nbytes = array_nbytes(buf'.pending[1].data)
              /\ buf'.nbytes = array_nbytes(buf'.pending[1].data)
              /\ buf'.need_update
              /\ buf'.need_resize = (buf.need_resize \/ buf'.nbytes # buf.nbytes)]_vars

\* set_data has replaced the data of a byte buffer that is live on the GPU by
\* data of the same size: no reallocation is asked for
C27_witness ==
    /\ last.op = "set_data"
    /\ last.res = "ok"
    /\ buf.cls = "Buffer"
    /\ buf.handle # 0
    /\ Len(buf.pending) = 1
    /\ buf.nbytes > 0
    /\ ~buf.need_resize

\* the keys slice(start, stop) with both ends written out, with and without
\* a step, and the other forms of key
ExplicitKeys ==
    {Slice(Some(a), Some(b), st) :
        a \in 0..MaxCount, b \in 0..MaxCount, st \in {None, Some(1), Some(2)}}

\* buffer[key] = data does what the claim says: it is refused, the queue as
\* it was, when the key is no unit-step slice and not the whole buffer or
\* when the data has not (stop - start) * stride bytes, and when it is not
\* refused the queue has one more write, at the element offset start
IndexedWriteAsSpecified(key, data) ==
    LET w == DataBuffer_setitem(World(0), "buf", key, data)
        unit == key.k = "slice" /\ key.step \in {None, Some(1)}
        fits == array_nbytes(data) = (key.stop[1] - key.start[1]) * buf.stride
    IN  /\ (~(unit \/ key.k = "ellipsis") \/ (unit /\ ~fits))
               => (Failed(w) /\ w.buf.pending = buf.pending)
        /\ ~Failed(w)
               => /\ unit \/ key.k = "ellipsis"
                  /\ Len(w.buf.pending) = Len(buf.pending) + 1
                  /\ w.buf.pending[Len(w.buf.pending)].offset
                         = (IF unit THEN key.start[1] ELSE 0) * buf.stride

\* C28: buffer[key] = array is accepted only for a unit-step slice(start,
\* stop) or for the whole buffer; it is refused with nothing enqueued when the
\* array has not exactly (stop - start) * stride bytes or when the key has
\* another form; when accepted it enqueues one write at element offset start.
C28_indexed_write_checked ==
    IsDataBuffer
        => \A key \in ExplicitKeys \cup {Ellipsis, IndexKey} :
               \A data \in {x \in ArgArrays : Castable("buf", x)} :
                   IndexedWriteAsSpecified(key, data)

(***************************************************************************)
(* Properties of the texture flush and of set_storage, under SpecTex.      *)
(***************************************************************************)
\* the sub-region upload calls among calls, in order
SubImageCalls(calls) == SelectSeq(calls, LAMBDA c : c.f = "glTexSubImage")

\* u, the sub-region uploads of a flush, end with one upload per entry of
\* queue, in the order of the queue, each to the texture named handle; at
\* most one upload comes before them (the full write on its fast path)
DrainedInOrder(u, queue, handle, ndim) ==
    /\ Len(u) - Len(queue) \in {0, 1}
    /\ \A i \in 1..Len(queue) :
           /\ u[Len(u) - Len(queue) + i].offset = reversed(queue[i].offset)
           /\ u[Len(u) - Len(queue) + i].size = Texture_get_size(queue[i].data.shape, ndim)
           /\ u[Len(u) - Len(queue) + i].data = queue[i].data
           /\ u[Len(u) - Len(queue) + i].handle = handle

\* activate returned w on a device that denies every texture, with writes in
\* the queue and no full write pending: it raised and uploaded nothing
RaisedWithoutUpload(w) ==
    /\ Failed(w)
    /\ CallCount(w.calls, "glTexSubImage") = 0

\* C29: a flush of a texture that succeeds uploads the queued sub-region
\* writes in the order they were queued, one glTexSubImage per entry, to the
\* handle the texture has after the full upload if there was one, and leaves
\* the queue empty; an entry processed while the handle is absent or is not
\* a live texture raises and uploads nothing.
C29_subdata_drained_in_order ==
    [][/\ (FlushReturned /\ tex.need_update /\ tex'.handle # 0)
            => /\ DrainedInOrder(SubImageCalls(gl_calls'), tex.pending_subdata,
                                 tex'.handle, Texture_ndim(tex.target))
               /\ tex'.pending_subdata = <<>>
       /\ (IsTexture /\ tex.need_update /\ tex.pending_data = None
               /\ tex.pending_subdata # <<>>)
            => \A ext \in Exts : \A h \in FreeWithout(tex.handle) :
                   RaisedWithoutUpload(GLObject_activate(TexWorld(h, h, ext, TRUE), "tex"))]_vars

\* a flush has made a full upload and then two sub-region uploads at
\* different offsets
C29_witness ==
    /\ IsTexture
    /\ last.op = "activate"
    /\ last.res = "ok"
    /\ tex.handle # 0
    /\ tex.pending_subdata = <<>>
    /\ CallCount(gl_calls, "glTexImage") = 1
    /\ Len(SubImageCalls(gl_calls)) = 2
    /\ SubImageCalls(gl_calls)[1].offset # SubImageCalls(gl_calls)[2].offset

\* set_storage(shape) returned w: it left the texture as it is when shape
\* is the logical shape, and recorded the allocation of shape and made it
\* the logical shape when it is not
StorageAsSpecified(w, shape) ==
    IF tex.texture_shape = Some(shape)
    THEN /\ ~Failed(w)
         /\ w.tex.pending_data = tex.pending_data
         /\ w.tex.texture_shape = tex.texture_shape
         /\ w.tex.need_update = tex.need_update
    ELSE /\ ~Failed(w)
         /\ w.tex.pending_data # None
         /\ w.tex.pending_data[1].data = ShapeTuple(shape)
         /\ w.tex.texture_shape = Some(shape)
         /\ w.tex.need_update

\* C30: set_storage(shape), with no other argument, leaves the pending full
\* write, the logical shape and the dirty flag as they are when shape is the
\* logical shape; whenever shape differs from the logical shape, be it only
\* in the trailing channel count, it records a pending storage allocation
\* and makes shape the logical shape.
C30_set_storage_same_shape_is_noop ==
    IsTexture
        => \A a \in FlushStorageArgs :
               Len(a.data.shape) - Texture_ndim(tex.target) \in {0, 1}
                   => StorageAsSpecified(
                          Texture_set_storage(World(0), a.data.shape, 0, "None"),
                          a.data.shape)

(***************************************************************************)
(* Properties of the life cycle of views, buffers and textures.            *)
(***************************************************************************)
\* C31: when activate() of a view has returned, the writes queued on its
\* parent have been uploaded and the parent's handle is bound, the view
\* reports the handle of the parent and the device knows no other buffer,
\* and the view's own _update calls the device not at all.
C31_view_activate_forwards_to_parent ==
    [][last'.op = "view.activate"
           => /\ last'.res = "ok"
              /\ buf'.pending = <<>>
              /\ CallCount(gl_calls', "glBufferSubData") = Len(buf.pending)
              /\ buf'.handle # 0
              /\ gl_calls'[Len(gl_calls')].f = "glBindBuffer"
              /\ gl_calls'[Len(gl_calls')].handle = buf'.handle
              /\ VertexBufferView_handle(
                     [buf |-> buf', view |-> view']).view.handle = buf'.handle
              /\ gl'.names = {buf'.handle}
              /\ CallCount(gl_calls', "glGenBuffers") = (IF buf.handle = 0 THEN 1 ELSE 0)
              /\ VertexBufferView_update(World(0)).calls = <<>>]_vars

\* the activation of a view has created the parent's handle and uploaded a
\* write queued on the parent
C31_witness ==
    /\ last.op = "view.activate"
    /\ last.res = "ok"
    /\ CallCount(gl_calls, "glGenBuffers") = 1
    /\ CallCount(gl_calls, "glBufferSubData") >= 1
    /\ buf.handle # 0

\* the handle of the one object of the state, buffer or texture
ObjectHandle == IF IsTexture THEN tex.handle ELSE buf.handle

\* in calls, every bind and every texture upload names a handle that an
\* earlier call of the sequence created; the handle is 0 only in the bind
\* that ends an activate which has set the handle of the texture to 0
\* (final = 0), the device having denied the texture it had just written
CreatedBeforeUse(calls, final) ==
    \A k \in 1..Len(calls) :
        calls[k].f \in {"glBindBuffer", "glBindTexture", "glTexImage", "glTexSubImage"}
            => \/ /\ calls[k].handle # 0
                  /\ \E g \in 1..(k - 1) :
                         /\ calls[g].f \in {"glGenBuffers", "glGenTextures"}
                         /\ calls[g].handle = calls[k].handle
               \/ /\ calls[k].handle = 0
                  /\ final = 0
                  /\ k = Len(calls)
                  /\ k > 1

\* C32: delete() of a buffer or texture whose handle is absent calls the
\* device not at all and changes nothing; an activate() made while the
\* handle is absent, as it is after delete(), first creates a handle, and
\* every bind and upload that follows uses a handle created by then.
C32_delete_idempotent_then_recreated ==
    [][/\ (last'.op = "delete" /\ ObjectHandle = 0)
            => /\ last'.res = "ok"
               /\ gl_calls' = <<>>
               /\ buf' = buf
               /\ tex' = tex
               /\ gl' = gl
       /\ last'.op = "delete"
            => /\ ObjectHandle' = 0
               /\ CallCount(gl_calls', "glDeleteBuffers")
                      + CallCount(gl_calls', "glDeleteTextures")
                      = (IF ObjectHandle = 0 THEN 0 ELSE 1)
       /\ (last'.op = "activate" /\ ObjectHandle = 0)
            => /\ Len(gl_calls') >= 1
               /\ gl_calls'[1].f \in {"glGenBuffers", "glGenTextures"}
               /\ CreatedBeforeUse(gl_calls', ObjectHandle')
               /\ (last'.res = "ok" /\ ~IsTexture) => buf'.handle = gl_calls'[1].handle]_vars

\* a buffer that was flushed once has been deleted, and deleted again: the
\* second delete has made no call
C32_witness ==
    /\ last.op = "delete"
    /\ buf.cls = "Buffer"
    /\ buf.handle = 0
    /\ buf.nbytes > 0
    /\ ~buf.need_update
    /\ gl_calls = <<>>

\* C33: set_nbytes with the capacity the buffer already has leaves the
\* resize flag and the queue of pending writes as they are; set_nbytes with
\* another capacity sets the resize flag and empties the queue.
C33_set_nbytes_same_capacity_keeps_queue ==
    [][(last'.op = "set_nbytes" /\ last'.res = "ok")
           => IF buf'.nbytes = buf.nbytes
              THEN /\ buf'.need_resize = buf.need_resize
                   /\ buf'.pending = buf.pending
              ELSE /\ buf'.need_resize
                   /\ buf'.pending = <<>>]_vars

\* every pending parameter of t is recorded in t with the same value
PendingIsRecorded(t) ==
    \A p \in 1..Len(ParamKeys) :
        t.pending_params[ParamKeys[p]] # "unset"
            => t.texture_params[ParamKeys[p]] = t.pending_params[ParamKeys[p]]

\* C34: in every state of a texture each pending filter or wrapping
\* parameter is a recorded parameter of the same value, and when an update
\* has succeeded no parameter is pending and the recorded ones are as before.
C34_pending_params_are_recorded ==
    [][/\ IsTexture => PendingIsRecorded(tex)
       /\ IsTexture => PendingIsRecorded(tex')
       /\ (FlushReturned /\ tex.need_update)
            => /\ tex'.pending_params = NoParams
               /\ tex'.texture_params = tex.texture_params]_vars

\* an update has applied a filter set by set_filter since the construction
C34_witness ==
    /\ IsTexture
    /\ last.op = "activate"
    /\ last.res = "ok"
    /\ tex.pending_params = NoParams
    /\ tex.texture_params["GL_TEXTURE_MAG_FILTER"] = "GL_NEAREST"
    /\ \E i \in 1..Len(gl_calls) :
           /\ gl_calls[i].f = "glTexParameter"
           /\ gl_calls[i].value = "GL_NEAREST"

\* C35: when set_data or set_storage has changed the logical shape of a
\* texture, the sub-region queue holds no write that was queued before, so
\* every queued write was accepted against the logical shape of now.
C35_shape_change_discards_subdata ==
    [][(IsTexture /\ last'.op \in {"tex.set_data", "tex.set_storage"}
            /\ last'.res = "ok" /\ tex'.texture_shape # tex.texture_shape)
           => tex'.pending_subdata = <<>>]_vars

(***************************************************************************)
(* Properties of the inference of the element type, under SpecCtor, and of *)
(* the ends of a slice, under SpecData.                                    *)
(***************************************************************************)
\* the buffer in the state, built from a descriptor, and the buffer w.buf,
\* built from the array data of the same element type, have the same element
\* type, vector size and stride, and the buffer in the state takes data
SameInference(w, data) ==
    /\ ~Failed(w)
    /\ w.buf.dtype = buf.dtype
    /\ w.buf.vsize = buf.vsize
    /\ w.buf.stride = buf.stride
    /\ ~Failed(DataBuffer_set_data(World(0), "buf", data))

\* C36: a vertex buffer constructed from the descriptor of an allowed
\* element type, plain, sub-array or structured with several fields, has the
\* element type, the vector size and the stride of the vertex buffer
\* constructed from an array of such elements, and accepts set_data of it.
C36_descriptor_and_array_agree ==
    (last.op = "__init__" /\ last.res = "ok" /\ last.arg.cls = "VertexBuffer"
         /\ last.arg.data.t = "dtype")
        => SameInference(
               Construct([last.arg EXCEPT !.data = Arr(last.arg.data.dtype, <<MaxCount>>)]),
               Arr(last.arg.data.dtype, <<MaxCount>>))

\* an array of n elements of the type and vector size of the buffer
ElementsOf(n) ==
    IF buf.dtype.fields = <<>> /\ buf.vsize > 1
    THEN Arr(buf.dtype, <<n, buf.vsize>>)
    ELSE Arr(buf.dtype, <<n>>)

\* buffer[key] = data, data being n elements of the buffer, enqueues the
\* write of these elements at the element offset start
WritesElements(key, n, start) ==
    LET w == DataBuffer_setitem(World(0), "buf", key, ElementsOf(n))
    IN  /\ ~Failed(w)
        /\ Len(w.buf.pending) = Len(buf.pending) + 1
        /\ w.buf.pending[Len(w.buf.pending)].offset = start * buf.stride
        /\ w.buf.pending[Len(w.buf.pending)].data = ElementsOf(n)

\* C37: in buffer[start:stop] = array, a start left out is element 0, a stop
\* left out is the element count, and a negative start or stop counts from
\* the element count: buffer[:] takes exactly count elements, buffer[-1:]
\* the last element, buffer[:-1] all but the last.
C37_slice_ends_resolve_against_count ==
    (IsDataBuffer /\ buf.count > 0)
        => /\ WritesElements(Slice(None, None, None), buf.count, 0)
           /\ WritesElements(Slice(Some(-1), None, None), 1, buf.count - 1)
           /\ buf.count > 1
                  => WritesElements(Slice(None, Some(-1), None), buf.count - 1, 0)

====
